---- MODULE Spec2Model ----
(***************************************************************************)
(* XBBot: community currency bot.  A model of the ledger handlers          *)
(* (transfer, manual add/remove, pay-from-fund, welcome bonus, top-up,     *)
(* demurrage), of the recurrence calculator get_next_run_time, of the job  *)
(* scheduler adapter (schedule_event_jobs / remove_event_jobs) and of the  *)
(* event payment processor (run_event_payment / handle_payment_for_event). *)
(*                                                                         *)
(* Time.  Every timestamp is a whole number of clock ticks of the civil    *)
(* zone (Europe/Moscow, a fixed offset).  Tick 0 is a Monday 00:00, a day  *)
(* has DayLen ticks.  A real instant x is represented by the tick that     *)
(* contains it; schedule fields lie on tick boundaries, so "x > field" and *)
(* "x.time() >= field" have the same truth value for x and for its tick.   *)
(*                                                                         *)
(* Money.  Amounts and balances are whole numbers of the smallest unit of  *)
(* NUMERIC(18,4), i.e. of 0.0001.                                          *)
(*                                                                         *)
(* Identity.  A user's database id and telegram id are the same number;    *)
(* the fund is id 0 (telegram_id 0).                                       *)
(***************************************************************************)
EXTENDS Integers, Sequences, FiniteSets, Bags, TLC

\* ------------------------------------------------------------ bounds
\* Clock ticks per civil day (the resolution of the clock).
DayLen == 2
\* Days of clock the scheduler specification runs for.
HorizonDays == 9
\* Days of clock the ledger specification runs for.
LedgerDays == 2
ArmDays == 1
CalcDays == 8
\* Non-fund accounts 1..NUsers.
NUsers == 2
\* Events that are ever created (AUTOINCREMENT ids 1..MaxEvents).
MaxEvents == 2
\* Largest amount typed into a command.
MaxAmount == 2
\* Rows the transactions table may hold in the ledger specification.
MaxTx == 3
\* Largest reminder lead time, in ticks.
MaxLead == 1
MaxCost == 1
MaxWeekday == 1
MaxDateAhead == 2
MaxFires == 2
\* process_transfer calls that can be in flight at one moment.
MaxCalls == 2
\* The telegram id the deployment names as super admin.
SuperAdminId == 1
\* Days of clock the demurrage specification runs for.
DemurrageDays == 3
\* Latest moment the job store specification starts at.
JobMaxTime == 1
\* Largest demurrage_interval_days of a deployment.
MaxInterval == 2
\* The demurrage rate an admin sets, in percent.
RatePct == 50

\* ------------------------------------------------- program constants
DaysPerWeek == 7
FundId == 0
GeneralActivity == 1
\* Smallest units in one unit of currency: quantize(Decimal('0.0001')).
UnitsPerCoin == 10000

MaxTime == HorizonDays * DayLen
LedgerMaxTime == LedgerDays * DayLen
ArmMaxTime == ArmDays * DayLen
DemurrageMaxTime == DemurrageDays * DayLen
UserIds == 1..NUsers
AccountIds == {FundId} \cup UserIds
EventIds == 1..MaxEvents
ActivityIds == {GeneralActivity, GeneralActivity + 1}
Amounts == 1..MaxAmount

\* Python's None, and a present optional value.
None == <<>>
Some(x) == <<x>>

\* ------------------------------------------------------------- clock
\* datetime.weekday(), .time(), .date() and datetime.combine on ticks.
Weekday(t) == (t \div DayLen) % DaysPerWeek
TimeOfDay(t) == t % DayLen
DateOf(t) == t \div DayLen
Combine(d, tm) == d * DayLen + tm

\* ------------------------------------------- recurrence calculator
\* A variant that keeps today's slot although its time has already passed.
get_next_run_time_same_day(event_type, event_date, weekday, event_time, last_run, clock) ==
    IF event_type = "single"
    THEN IF event_date # None /\ event_date[1] > clock THEN event_date ELSE None
    ELSE IF event_type = "recurring" /\ weekday # None /\ event_time # None
    THEN LET d0 == weekday[1] - Weekday(clock)
             days_ahead == IF d0 < 0 THEN d0 + DaysPerWeek ELSE d0
         IN  Some(Combine(DateOf(clock) + days_ahead, event_time[1]))
    ELSE None

\* A variant that also returns a single event's date when it equals the clock.
get_next_run_time_not_strict(event_type, event_date, weekday, event_time, last_run, clock) ==
    IF event_type = "single"
    THEN IF event_date # None /\ event_date[1] >= clock THEN event_date ELSE None
    ELSE IF event_type = "recurring" /\ weekday # None /\ event_time # None
    THEN LET d0 == weekday[1] - Weekday(clock)
             days_ahead ==
                 IF d0 < 0 THEN d0 + DaysPerWeek
                 ELSE IF d0 = 0 /\ TimeOfDay(clock) >= event_time[1] THEN DaysPerWeek
                 ELSE d0
         IN  Some(Combine(DateOf(clock) + days_ahead, event_time[1]))
    ELSE None

\* A variant that makes up for a weekly slot missed since last_run by
\* returning the present moment.
get_next_run_time_catch_up(event_type, event_date, weekday, event_time, last_run, clock) ==
    IF event_type = "single"
    THEN IF event_date # None /\ event_date[1] > clock THEN event_date ELSE None
    ELSE IF event_type = "recurring" /\ weekday # None /\ event_time # None
    THEN IF last_run # None /\ last_run[1] + DaysPerWeek * DayLen < clock
         THEN Some(clock)
         ELSE LET d0 == weekday[1] - Weekday(clock)
                  days_ahead ==
                      IF d0 < 0 THEN d0 + DaysPerWeek
                      ELSE IF d0 = 0 /\ TimeOfDay(clock) >= event_time[1] THEN DaysPerWeek
                      ELSE d0
              IN  Some(Combine(DateOf(clock) + days_ahead, event_time[1]))
    ELSE None

\* utils.get_next_run_time; clock is the value of datetime.now(MOSCOW_TZ)
\* read on its first line.
get_next_run_time(event_type, event_date, weekday, event_time, last_run, clock) ==
    IF event_type = "single"
    THEN IF event_date # None /\ event_date[1] > clock THEN event_date ELSE None
    ELSE IF event_type = "recurring" /\ weekday # None /\ event_time # None
    THEN LET today_weekday == Weekday(clock)
             d0 == weekday[1] - today_weekday
             days_ahead ==
                 IF d0 < 0 THEN d0 + DaysPerWeek
                 ELSE IF d0 = 0 /\ TimeOfDay(clock) >= event_time[1] THEN DaysPerWeek
                 ELSE d0
             target_date == DateOf(clock) + days_ahead
         IN  Some(Combine(target_date, event_time[1]))
    ELSE None

\* ------------------------------------------------------------- state
VARIABLES
    users,              \* ids of the rows of table users
    balance,            \* users.balance
    transaction_count,  \* users.transaction_count
    transactions,       \* table transactions, in insertion order
    subscriptions,      \* table user_subscriptions: <<user_id, activity_id>>
    settings,           \* table settings
    activities,         \* table activities: the ids present
    events,             \* table events: id -> row, or None when absent
    event_seq,          \* last AUTOINCREMENT id given to an event
    jobs,               \* the scheduler's job store
    now,                \* the clock
    running,            \* the process is up and its scheduler started
    payment_log,        \* bag of <<event id, date>>: "Successfully processed payments" log lines
    date_edited,        \* events whose event_date was rewritten by update_event_date
    pending,            \* process_transfer calls past their balance check, before their transaction
    last                \* what the most recent handler or job did and answered

vars == <<users, balance, transaction_count, transactions, subscriptions, settings,
          activities, events, event_seq, jobs, now, running, payment_log, date_edited, pending, last>>

ledger_vars == <<users, balance, transaction_count, transactions, subscriptions, settings>>
sched_vars == <<activities, events, event_seq, jobs, running, payment_log, date_edited>>

\* ------------------------------------------------ scheduler adapter
\* Job ids f"event_payment_{event_id}" and f"event_reminder_{event_id}".
PaymentJobId(event_id) == <<"event_payment", event_id>>
ReminderJobId(event_id) == <<"event_reminder", event_id>>

\* scheduler.add_job(..., 'date', run_date=..., id=...): the store refuses a
\* second job with an id it already holds (ConflictingIdError).
add_job(J, job_id, run_date) ==
    IF \E j \in J : j.id = job_id
    THEN [jobs |-> J, raised |-> TRUE]
    ELSE [jobs |-> J \cup {[id |-> job_id, run_date |-> run_date]}, raised |-> FALSE]

\* A variant in which the lookup error of a missing job is not caught.
remove_job_unguarded(J, job_id) == ~\E j \in J : j.id = job_id

\* scheduler.remove_job inside try / except JobLookupError: whether the
\* removal of job_id from J raises into the caller of remove_event_jobs.
remove_job_raises(J, job_id) == FALSE

\* A variant that cancels the payment job only.
remove_event_jobs_payment_only(J, event_id) ==
    {j \in J : j.id # PaymentJobId(event_id)}

\* scheduler_jobs.remove_event_jobs: both ids are removed, a missing job
\* (JobLookupError) is passed over.
remove_event_jobs(J, event_id) ==
    {j \in J : j.id \notin {PaymentJobId(event_id), ReminderJobId(event_id)}}

\* A variant that returns at once when there is no next run.
schedule_event_jobs_returns_early(J, event_id, event, clock) ==
    LET J0 == remove_event_jobs(J, event_id)
        next_run == get_next_run_time(event.event_type, event.event_date, event.weekday,
                                      event.event_time, event.last_run, clock)
    IN  IF next_run = None \/ next_run[1] < clock
        THEN [jobs |-> J, raised |-> FALSE]
        ELSE LET p == add_job(J0, PaymentJobId(event_id), next_run[1])
                 reminder_datetime == next_run[1] - event.reminder_time
             IN  IF p.raised THEN p
                 ELSE IF event.reminder_time > 0 /\ reminder_datetime > clock
                 THEN add_job(p.jobs, ReminderJobId(event_id), reminder_datetime)
                 ELSE p

\* A variant that also arms a reminder whose time is the present moment.
schedule_event_jobs_reminder_now(J, event_id, event, clock) ==
    LET J0 == remove_event_jobs(J, event_id)
        next_run == get_next_run_time(event.event_type, event.event_date, event.weekday,
                                      event.event_time, event.last_run, clock)
    IN  IF next_run = None \/ next_run[1] < clock
        THEN [jobs |-> J0, raised |-> FALSE]
        ELSE LET p == add_job(J0, PaymentJobId(event_id), next_run[1])
                 reminder_datetime == next_run[1] - event.reminder_time
             IN  IF p.raised THEN p
                 ELSE IF event.reminder_time > 0 /\ reminder_datetime >= clock
                 THEN add_job(p.jobs, ReminderJobId(event_id), reminder_datetime)
                 ELSE p

\* scheduler_jobs.schedule_event_jobs for the stored row `event`; the
\* result is the job store and whether the call raised.
schedule_event_jobs(J, event_id, event, clock) ==
    LET J0 == remove_event_jobs(J, event_id)
        next_run == get_next_run_time(event.event_type, event.event_date, event.weekday,
                                      event.event_time, event.last_run, clock)
    IN  IF next_run = None \/ next_run[1] < clock
        THEN [jobs |-> J0, raised |-> FALSE]
        ELSE LET p == add_job(J0, PaymentJobId(event_id), next_run[1])
                 reminder_datetime == next_run[1] - event.reminder_time
             IN  IF p.raised THEN p
                 ELSE IF event.reminder_time > 0 /\ reminder_datetime > clock
                 THEN add_job(p.jobs, ReminderJobId(event_id), reminder_datetime)
                 ELSE p

\* The jobs of the store that belong to one event, by kind.
PaymentJobs(J, event_id) == {j \in J : j.id = PaymentJobId(event_id)}
ReminderJobs(J, event_id) == {j \in J : j.id = ReminderJobId(event_id)}
\* A job is due when its run_date has come.
Due(J, clock) == {j \in J : j.run_date <= clock}

\* ------------------------------------------------------ ledger store
\* The three columns a ledger statement can touch, as one value.
Ledger == [balance |-> balance, transaction_count |-> transaction_count,
           transactions |-> transactions]

\* UPDATE users SET balance = balance - amount / + amount WHERE id = u
Debit(L, u, amount) == [L EXCEPT !.balance[u] = @ - amount]
Credit(L, u, amount) == [L EXCEPT !.balance[u] = @ + amount]
\* INSERT INTO transactions (from_user_id, to_user_id, amount, type, comment)
InsertTx(L, from, to, amount, type) ==
    [L EXCEPT !.transactions =
        Append(@, [from_user_id |-> from, to_user_id |-> to, amount |-> amount, type |-> type])]
\* UPDATE users SET transaction_count = transaction_count + 1 WHERE id IN S
IncCount(L, S) ==
    [L EXCEPT !.transaction_count = [u \in AccountIds |-> IF u \in S THEN @[u] + 1 ELSE @[u]]]

\* A variant without the transaction block: every statement is committed as
\* it is executed.
conn_transaction_autocommit(pre, work, failed) == work

\* async with conn.transaction(): the statements executed so far (work) are
\* committed when the block ends normally and rolled back to `pre` when an
\* exception leaves it.
conn_transaction(pre, work, failed) == IF failed THEN pre ELSE work

\* db.create_user: the row and its subscription to activity 1.
create_user_subscriptions(S, u) == S \cup {<<u, GeneralActivity>>}

\* Sum of f over a finite set of accounts, and sums over the transactions.
RECURSIVE SumOver(_, _)
SumOver(f, S) ==
    IF S = {} THEN 0
    ELSE LET u == CHOOSE x \in S : TRUE IN f[u] + SumOver(f, S \ {u})

RECURSIVE Credits(_, _)
Credits(txs, u) ==
    IF txs = <<>> THEN 0
    ELSE (IF Head(txs).to_user_id = u THEN Head(txs).amount ELSE 0) + Credits(Tail(txs), u)

RECURSIVE Debits(_, _)
Debits(txs, u) ==
    IF txs = <<>> THEN 0
    ELSE (IF Head(txs).from_user_id = u THEN Head(txs).amount ELSE 0) + Debits(Tail(txs), u)

\* The members of a set of ids in ascending order (the order rows come back).
RECURSIVE Ascending(_)
Ascending(S) ==
    IF S = {} THEN <<>>
    ELSE LET m == CHOOSE x \in S : \A y \in S : x <= y IN <<m>> \o Ascending(S \ {m})

\* -------------------------------------------------- transfer (/send)
\* The statements of process_transfer's transaction block, the first k of
\* them executed: debit sender, credit recipient, insert row, count + 1.
TransferStmts(L, sender, recipient, amount, k) ==
    LET L1 == IF k >= 1 THEN Debit(L, sender, amount) ELSE L
        L2 == IF k >= 2 THEN Credit(L1, recipient, amount) ELSE L1
        L3 == IF k >= 3 THEN InsertTx(L2, sender, recipient, amount, "transfer") ELSE L2
        L4 == IF k >= 4 THEN IncCount(L3, {sender, recipient}) ELSE L3
    IN  L4

\* process_transfer's balance check.
InsufficientFunds(sender_balance, amount) == sender_balance < amount

\* A variant that credits the recipient twice the amount.
TransferCommittedDouble(L, sender, recipient, amount) ==
    IncCount(InsertTx(Credit(Debit(L, sender, amount), recipient, 2 * amount),
                      sender, recipient, amount, "transfer"), {sender, recipient})

\* All four statements of the transfer.
TransferCommitted(L, sender, recipient, amount) ==
    TransferStmts(L, sender, recipient, amount, 4)

\* The ledger columns after a handler: those of L.
Commit(L) ==
    /\ balance' = L.balance
    /\ transaction_count' = L.transaction_count
    /\ transactions' = L.transactions

\* utils.ensure_user_exists: the row is created (with its subscription to
\* activity 1) when the telegram id is unknown; without the row of activity
\* 1 the subscription's foreign key fails and no user is created.
ensure_user_exists(u) ==
    /\ u \in users \/ GeneralActivity \in activities
    /\ users' = users \cup {u}
    /\ subscriptions' = IF u \in users THEN subscriptions
                        ELSE create_user_subscriptions(subscriptions, u)

\* /send: cmd_send and process_transfer.  k <= 4: an exception leaves the
\* transaction block after k of its statements; k = 5: the block commits and
\* the call after it (handle_debt_repayment) raises, so the sender is told of
\* an error; k = 6: no exception.
cmd_send(sender, recipient, amount, k) ==
    /\ running
    /\ Len(transactions) < MaxTx
    /\ recipient \in users /\ recipient # sender
    /\ ensure_user_exists(sender)
    /\ IF InsufficientFunds(balance[sender], amount)
       THEN /\ UNCHANGED <<balance, transaction_count, transactions>>
            /\ last' = [op |-> "transfer", status |-> "rejected"]
       ELSE LET failed == k <= 4
                work == IF failed THEN TransferStmts(Ledger, sender, recipient, amount, k)
                        ELSE TransferCommitted(Ledger, sender, recipient, amount)
            IN  /\ Commit(conn_transaction(Ledger, work, failed))
                /\ last' = IF failed THEN [op |-> "transfer", status |-> "error"]
                           ELSE [op |-> "transfer",
                                 status |-> IF k = 5 THEN "error_after_commit" ELSE "ok",
                                 from_user |-> sender, to_user |-> recipient, amount |-> amount]
    /\ UNCHANGED <<settings, now, pending, sched_vars>>

\* process_transfer up to its first suspension after the balance check:
\* cmd_send's ensure_user_exists, then get_user_balance and the comparison.
\* A call that passes waits, as `call`, for its turn to open the transaction
\* block; other handlers run meanwhile (updates are handled as concurrent
\* tasks).
process_transfer_check(call, sender, recipient, amount) ==
    /\ running
    /\ call \notin {t.call : t \in pending}
    /\ recipient \in users /\ recipient # sender
    /\ ensure_user_exists(sender)
    /\ IF InsufficientFunds(balance[sender], amount)
       THEN /\ pending' = pending
            /\ last' = [op |-> "transfer", status |-> "rejected"]
       ELSE /\ pending' = pending \cup {[call |-> call, sender |-> sender,
                                         recipient |-> recipient, amount |-> amount]}
            /\ last' = [op |-> "transfer_check", status |-> "ok"]
    /\ UNCHANGED <<balance, transaction_count, transactions, settings, now, sched_vars>>

\* The rest of process_transfer for the waiting call: the transaction block
\* and the answer; k as in cmd_send. The block does not read the balance
\* again.
process_transfer_commit(call, k) ==
    /\ running
    /\ Len(transactions) < MaxTx
    /\ \E t \in pending :
        /\ t.call = call
        /\ LET failed == k <= 4
               work == IF failed THEN TransferStmts(Ledger, t.sender, t.recipient, t.amount, k)
                       ELSE TransferCommitted(Ledger, t.sender, t.recipient, t.amount)
           IN  /\ Commit(conn_transaction(Ledger, work, failed))
               /\ last' = IF failed THEN [op |-> "transfer", status |-> "error"]
                          ELSE [op |-> "transfer",
                                status |-> IF k = 5 THEN "error_after_commit" ELSE "ok",
                                from_user |-> t.sender, to_user |-> t.recipient,
                                amount |-> t.amount]
        /\ pending' = pending \ {t}
    /\ UNCHANGED <<users, subscriptions, settings, now, sched_vars>>

\* /add @username amount
cmd_add(u, amount) ==
    /\ running
    /\ Len(transactions) < MaxTx
    /\ u \in users
    /\ Commit(IncCount(InsertTx(Credit(Ledger, u, amount), FundId, u, amount, "manual_add"), {u}))
    /\ last' = [op |-> "manual_add", status |-> "ok"]
    /\ UNCHANGED <<users, subscriptions, settings, now, pending, sched_vars>>

\* /rem @username amount
cmd_rem(u, amount) ==
    /\ running
    /\ Len(transactions) < MaxTx
    /\ u \in users
    /\ Commit(IncCount(InsertTx(Debit(Ledger, u, amount), u, FundId, amount, "manual_rem"), {u}))
    /\ last' = [op |-> "manual_rem", status |-> "ok"]
    /\ UNCHANGED <<users, subscriptions, settings, now, pending, sched_vars>>

\* /pay_from_fund @username amount
cmd_pay_from_fund(u, amount) ==
    /\ running
    /\ Len(transactions) < MaxTx
    /\ u \in users
    /\ IF balance[FundId] < amount
       THEN /\ UNCHANGED <<balance, transaction_count, transactions>>
            /\ last' = [op |-> "fund_payment", status |-> "rejected"]
       ELSE /\ Commit(IncCount(InsertTx(Credit(Debit(Ledger, FundId, amount), u, amount),
                                        FundId, u, amount, "fund_payment"), {u}))
            /\ last' = [op |-> "fund_payment", status |-> "ok"]
    /\ UNCHANGED <<users, subscriptions, settings, now, pending, sched_vars>>

\* /start of a telegram user: a new user gets the welcome bonus.
cmd_start(u) ==
    /\ running
    /\ Len(transactions) < MaxTx
    /\ u \notin users
    /\ ensure_user_exists(u)
    /\ LET welcome_bonus == settings.welcome_bonus_amount
       IN  IF welcome_bonus > 0
           THEN Commit(InsertTx(Credit(Ledger, u, welcome_bonus), FundId, u, welcome_bonus,
                                "welcome_bonus"))
           ELSE UNCHANGED <<balance, transaction_count, transactions>>
    /\ last' = [op |-> "start", status |-> "ok"]
    /\ UNCHANGED <<settings, now, pending, sched_vars>>

\* POST /webhook/tribute: a paid top-up of amount_rub.
handle_tribute_webhook(u, amount_rub) ==
    /\ running
    /\ Len(transactions) < MaxTx
    /\ ensure_user_exists(u)
    /\ LET top_up_amount == amount_rub * settings.exchange_rate
       IN  Commit(InsertTx(Credit(Ledger, u, top_up_amount), FundId, u, top_up_amount, "top_up"))
    /\ last' = [op |-> "top_up", status |-> "ok"]
    /\ UNCHANGED <<settings, now, pending, sched_vars>>

\* --------------------------------------------------------- demurrage
\* A variant that drops the digits after the fourth decimal place.
DemurrageAmount_truncated(bal, pct) == (bal * pct) \div 100

\* (balance * rate).quantize(Decimal('0.0001')) for a rate of pct percent:
\* the default rounding of Decimal, half to even.
DemurrageAmount(bal, pct) ==
    LET p == bal * pct
        q == p \div 100
        r == p % 100
    IN  IF r > 50 \/ (r = 50 /\ q % 2 = 1) THEN q + 1 ELSE q

\* users_to_tax, and those of them whose rounded amount is not 0.
UsersToTax == {u \in users \ {FundId} : balance[u] > 0}
Debited == {u \in UsersToTax : DemurrageAmount(balance[u], settings.demurrage_rate_pct) > 0}
TotalDemurrage ==
    SumOver([u \in AccountIds |-> DemurrageAmount(balance[u], settings.demurrage_rate_pct)], Debited)
\* The statements of the run: a debit and a row per debited user, then the
\* credit of the fund.
DemurrageStmtCount == 2 * Cardinality(Debited) + (IF TotalDemurrage > 0 THEN 1 ELSE 0)

\* The ledger after the first k statements of the run; amounts are computed
\* from the balances read at the start of the block.
RECURSIVE DemurrageStmts(_, _)
DemurrageStmts(L, k) ==
    IF k = 0 THEN L
    ELSE LET before == DemurrageStmts(L, k - 1)
             order == Ascending(Debited)
         IN  IF k <= 2 * Len(order)
             THEN LET u == order[(k + 1) \div 2]
                      amount == DemurrageAmount(balance[u], settings.demurrage_rate_pct)
                  IN  IF k % 2 = 1 THEN Debit(before, u, amount)
                      ELSE InsertTx(before, u, FundId, amount, "demurrage")
             ELSE Credit(before, FundId, TotalDemurrage)

\* A variant that leaves demurrage_last_run as it was.
set_demurrage_last_run_never(today) == settings

\* db.set_setting('demurrage_last_run', today): its own connection, its own commit.
set_demurrage_last_run(today) == [settings EXCEPT !.demurrage_last_run = today]

\* A variant that does not look at demurrage_enabled.
process_demurrage_always_enabled(c) ==
    LET today == DateOf(now)
        n == DemurrageStmtCount
    IN  IF today - settings.demurrage_last_run < settings.demurrage_interval_days
        THEN /\ c = 0
             /\ UNCHANGED <<balance, transaction_count, transactions, settings>>
             /\ last' = [op |-> "demurrage", status |-> "not_due"]
        ELSE IF settings.demurrage_rate_pct <= 0
        THEN /\ c = 0
             /\ UNCHANGED <<balance, transaction_count, transactions, settings>>
             /\ last' = [op |-> "demurrage", status |-> "no_rate"]
        ELSE IF UsersToTax = {}
        THEN /\ c = 0
             /\ UNCHANGED <<balance, transaction_count, transactions>>
             /\ settings' = set_demurrage_last_run(today)
             /\ last' = [op |-> "demurrage", status |-> "nobody"]
        ELSE /\ c <= n + 2
             /\ LET failed == c <= n + 1
                    work == DemurrageStmts(Ledger, IF c > n THEN n ELSE c)
                IN  /\ Commit(conn_transaction(Ledger, work, failed))
                    /\ settings' = IF c > n THEN set_demurrage_last_run(today) ELSE settings
                    /\ last' = [op |-> "demurrage", status |-> IF failed THEN "error" ELSE "ok"]

\* scheduler_jobs.process_demurrage.  c <= DemurrageStmtCount: an exception after
\* c statements; DemurrageStmtCount + 1: an exception at the commit of the block,
\* after set_setting; DemurrageStmtCount + 2: no exception.
process_demurrage(c) ==
    LET today == DateOf(now)
        n == DemurrageStmtCount
    IN  IF ~settings.demurrage_enabled
        THEN /\ c = 0
             /\ UNCHANGED <<balance, transaction_count, transactions, settings>>
             /\ last' = [op |-> "demurrage", status |-> "disabled"]
        ELSE IF today - settings.demurrage_last_run < settings.demurrage_interval_days
        THEN /\ c = 0
             /\ UNCHANGED <<balance, transaction_count, transactions, settings>>
             /\ last' = [op |-> "demurrage", status |-> "not_due"]
        ELSE IF settings.demurrage_rate_pct <= 0
        THEN /\ c = 0
             /\ UNCHANGED <<balance, transaction_count, transactions, settings>>
             /\ last' = [op |-> "demurrage", status |-> "no_rate"]
        ELSE IF UsersToTax = {}
        THEN /\ c = 0
             /\ UNCHANGED <<balance, transaction_count, transactions>>
             /\ settings' = set_demurrage_last_run(today)
             /\ last' = [op |-> "demurrage", status |-> "nobody"]
        ELSE /\ c <= n + 2
             /\ LET failed == c <= n + 1
                    work == DemurrageStmts(Ledger, IF c > n THEN n ELSE c)
                IN  /\ Commit(conn_transaction(Ledger, work, failed))
                    /\ settings' = IF c > n THEN set_demurrage_last_run(today) ELSE settings
                    /\ last' = [op |-> "demurrage", status |-> IF failed THEN "error" ELSE "ok"]

\* /demurrage_on and /demurrage_off: set_setting('demurrage_enabled', '1' / '0').
cmd_demurrage_on ==
    /\ running
    /\ settings' = [settings EXCEPT !.demurrage_enabled = TRUE]
    /\ last' = [op |-> "demurrage_on", status |-> "ok"]
    /\ UNCHANGED <<users, balance, transaction_count, transactions, subscriptions, now, pending, sched_vars>>

cmd_demurrage_off ==
    /\ running
    /\ settings' = [settings EXCEPT !.demurrage_enabled = FALSE]
    /\ last' = [op |-> "demurrage_off", status |-> "ok"]
    /\ UNCHANGED <<users, balance, transaction_count, transactions, subscriptions, now, pending, sched_vars>>

\* /set_demurrage percent: a percent outside 0..100 is refused.
cmd_set_demurrage(percent) ==
    /\ running
    /\ IF 0 <= percent /\ percent <= 100
       THEN /\ settings' = [settings EXCEPT !.demurrage_rate_pct = percent]
            /\ last' = [op |-> "set_demurrage", status |-> "ok"]
       ELSE /\ settings' = settings
            /\ last' = [op |-> "set_demurrage", status |-> "rejected"]
    /\ UNCHANGED <<users, balance, transaction_count, transactions, subscriptions, now, pending, sched_vars>>

\* CronTrigger(hour=0, minute=1): the next start of a day.
CronJobId == <<"process_demurrage", 0>>
CronNext(clock) == Combine(DateOf(clock) + 1, 0)

\* The daily job fires and is set to its next day.
DemurrageFire(c) ==
    /\ running
    /\ \E j \in Due(jobs, now) :
        /\ j.id = CronJobId
        /\ jobs' = (jobs \ {j}) \cup {[id |-> CronJobId, run_date |-> CronNext(now)]}
    /\ process_demurrage(c)
    /\ UNCHANGED <<activities, users, subscriptions, events, event_seq, now, pending, running, payment_log, date_edited>>

\* ------------------------------------------------------------- clock
\* The clock advances; a running scheduler lets no due job wait.
Tick(limit) ==
    /\ now < limit
    /\ running => Due(jobs, now) = {}
    /\ now' = now + 1
    /\ last' = [op |-> "tick", status |-> "ok"]
    /\ UNCHANGED <<ledger_vars, sched_vars, pending>>

\* ------------------------------------------ the ledger specification
\* A fresh database (init_db) whose admin has set the welcome bonus, enabled
\* demurrage and set its rate; the process is up, no event exists.
Init ==
    /\ users = {FundId}
    /\ balance = [u \in AccountIds |-> 0]
    /\ transaction_count = [u \in AccountIds |-> 0]
    /\ transactions = <<>>
    /\ subscriptions = {}
    /\ settings = [welcome_bonus_amount |-> 2, exchange_rate |-> 1,
                   demurrage_enabled |-> TRUE, demurrage_rate_pct |-> 50,
                   demurrage_interval_days |-> 1, demurrage_last_run |-> -1]
    /\ activities = ActivityIds
    /\ events = [e \in EventIds |-> None]
    /\ event_seq = 0
    /\ jobs = {[id |-> CronJobId, run_date |-> CronNext(0)]}
    /\ now = 0
    /\ running = TRUE
    /\ payment_log = EmptyBag
    /\ date_edited = {}
    /\ pending = {}
    /\ last = [op |-> "init", status |-> "ok"]

TickLedger == Tick(LedgerMaxTime)

Next ==
    \/ TickLedger
    \/ \E u \in UserIds : cmd_start(u)
    \/ \E s \in UserIds, r \in AccountIds, a \in Amounts, k \in 0..6 : cmd_send(s, r, a, k)
    \/ \E u \in AccountIds, a \in Amounts : cmd_add(u, a)
    \/ \E u \in AccountIds, a \in Amounts : cmd_rem(u, a)
    \/ \E u \in AccountIds, a \in Amounts : cmd_pay_from_fund(u, a)
    \/ \E u \in UserIds, a \in Amounts : handle_tribute_webhook(u, a)
    \/ \E c \in 0..(2 * NUsers + 3) : DemurrageFire(c)

Spec == Init /\ [][Next]_vars

\* ------------------------------------ the concurrent-transfer specification
\* Users who have joined send transfers whose handlers interleave at the
\* suspension between the balance check and the transaction block; an admin
\* credits accounts.
NextRace ==
    \/ \E u \in UserIds : cmd_start(u)
    \/ \E u \in UserIds, a \in Amounts : cmd_add(u, a)
    \/ \E call \in 1..MaxCalls, s \in UserIds, r \in AccountIds, a \in Amounts :
          process_transfer_check(call, s, r, a)
    \/ \E call \in 1..MaxCalls, k \in 0..6 : process_transfer_commit(call, k)

SpecRace == Init /\ [][NextRace]_vars

\* -------------------------------------- the demurrage specification
\* A community whose users have joined, the settings as init_db writes them
\* (demurrage off, rate 1 percent, never run), the interval as the
\* deployment's settings row has it; admins credit and debit accounts and
\* switch and tune demurrage while the daily job runs.
InitDemurrage ==
    /\ users = AccountIds
    /\ balance = [u \in AccountIds |-> 0]
    /\ transaction_count = [u \in AccountIds |-> 0]
    /\ transactions = <<>>
    /\ subscriptions = {<<u, GeneralActivity>> : u \in UserIds}
    /\ \E interval \in 1..MaxInterval :
           settings = [welcome_bonus_amount |-> 0, exchange_rate |-> 1,
                       demurrage_enabled |-> FALSE, demurrage_rate_pct |-> 1,
                       demurrage_interval_days |-> interval,
                       demurrage_last_run |-> 0 - MaxInterval]
    /\ activities = ActivityIds
    /\ events = [e \in EventIds |-> None]
    /\ event_seq = 0
    /\ jobs = {[id |-> CronJobId, run_date |-> CronNext(0)]}
    /\ now = 0
    /\ running = TRUE
    /\ payment_log = EmptyBag
    /\ date_edited = {}
    /\ pending = {}
    /\ last = [op |-> "init", status |-> "ok"]

TickDemurrage == Tick(DemurrageMaxTime)

NextDemurrage ==
    \/ TickDemurrage
    \/ \E u \in UserIds, a \in Amounts : cmd_add(u, a)
    \/ \E u \in UserIds, a \in Amounts : cmd_rem(u, a)
    \/ cmd_demurrage_on
    \/ cmd_demurrage_off
    \/ \E percent \in {0 - 1, 0, RatePct} : cmd_set_demurrage(percent)
    \/ \E c \in 0..(2 * NUsers + 3) : DemurrageFire(c)

SpecDemurrage == InitDemurrage /\ [][NextDemurrage]_vars

\* ------------------------------------------------ event-fee sweep
\* A variant that takes every user but the fund, whatever the activity.
Audience_everyone(event) == users \ {FundId}

\* handle_payment_for_event's audience: every user but the fund for an
\* event of activity 1, the subscribers of the activity otherwise.
Audience(event) ==
    IF event.activity_id = GeneralActivity
    THEN users \ {FundId}
    ELSE {u \in users : <<u, event.activity_id>> \in subscriptions}

\* The ledger after the first k statements of the per-member loop: for each
\* member in turn the debit, the event_fee row and the count + 1.
RECURSIVE SweepStmts(_, _, _, _)
SweepStmts(L, order, fee, k) ==
    IF k = 0 THEN L
    ELSE LET before == SweepStmts(L, order, fee, k - 1)
             u == order[(k + 2) \div 3]
         IN  IF k % 3 = 1 THEN Debit(before, u, fee)
             ELSE IF k % 3 = 2 THEN InsertTx(before, u, FundId, fee, "event_fee")
             ELSE IncCount(before, {u})

\* A variant that keeps the statements executed before the exception.
handle_payment_for_event_partial(L, event, c) ==
    LET subscribers == Ascending(Audience(event))
        n == 3 * Len(subscribers)
    IN  IF event.cost <= 0 \/ subscribers = <<>>
        THEN [ledger |-> L, raised |-> FALSE, processed |-> FALSE]
        ELSE [ledger |-> SweepStmts(L, subscribers, event.cost, IF c <= n THEN c ELSE n),
              raised |-> c <= n, processed |-> c > n]

\* A variant without the check of the fee: a free event is swept like any other.
handle_payment_for_event_no_fee_check(L, event, c) ==
    LET subscribers == Ascending(Audience(event))
        n == 3 * Len(subscribers)
    IN  IF subscribers = <<>>
        THEN [ledger |-> L, raised |-> FALSE, processed |-> FALSE]
        ELSE LET failed == event.cost > 0 /\ c <= n
                 work == SweepStmts(L, subscribers, event.cost, IF failed THEN c ELSE n)
             IN  [ledger |-> conn_transaction(L, work, failed),
                  raised |-> failed, processed |-> ~failed]

\* scheduler_jobs.handle_payment_for_event.  c <= 3 * n: an exception leaves
\* the transaction block after c statements; c = 3 * n + 1: no exception.
handle_payment_for_event(L, event, c) ==
    LET subscribers == Ascending(Audience(event))
        n == 3 * Len(subscribers)
    IN  IF event.cost <= 0 \/ subscribers = <<>>
        THEN [ledger |-> L, raised |-> FALSE, processed |-> FALSE]
        ELSE LET failed == c <= n
                 work == SweepStmts(L, subscribers, event.cost, IF failed THEN c ELSE n)
             IN  [ledger |-> conn_transaction(L, work, failed),
                  raised |-> failed, processed |-> ~failed]

\* The last value c can take for the event.
SweepChoices(event) ==
    IF event.cost <= 0 \/ Audience(event) = {} THEN 0 ELSE 3 * Cardinality(Audience(event)) + 1

\* A variant that leaves last_run as it was.
set_last_run_skipped(event, clock) == event

\* db.update_event(event_id, last_run=now)
set_last_run(event, clock) == [event EXCEPT !.last_run = Some(clock)]

\* A variant of the message call without its try/except: a failed delivery
\* raises inside the loop.
send_message_unguarded(u, undelivered) == u \in undelivered

\* bot.send_message inside try/except (the charge notification, the
\* reminder): whether a failed delivery to u raises into the caller.
send_message_raises(u, undelivered) == FALSE

\* The number of statements of the sweep's loop that run before an exception
\* leaves it: c, or fewer when a message call raises after its member's three
\* statements.
StatementsRun(event, c, undelivered) ==
    LET order == Ascending(Audience(event))
        raising == {i \in 1..Len(order) : send_message_raises(order[i], undelivered)}
        first == CHOOSE i \in raising : \A j \in raising : i <= j
    IN  IF raising # {} /\ 3 * first < c THEN 3 * first ELSE c

\* The members whose charge notification was attempted in a sweep that ran
\* k statements: the message follows the member's three statements, inside
\* the loop and inside the transaction block.
ChargeNotified(event, k) ==
    LET order == Ascending(Audience(event))
    IN  IF event.cost <= 0 THEN {}
        ELSE {order[i] : i \in {j \in 1..Len(order) : 3 * j <= k}}

\* A variant of the skip that tells every user about it.
Skipped_announced(op, e) ==
    [op |-> op, status |-> "skipped", event |-> e, notified |-> users \ {FundId},
     undelivered |-> {}]

\* run_event_payment and run_event_reminder for an event that get_event does
\* not return or that is not active: a warning in the log, nothing else.
Skipped(op, e) ==
    [op |-> op, status |-> "skipped", event |-> e, notified |-> {}, undelivered |-> {}]

\* scheduler_jobs.run_event_payment for event e, J the store without the
\* job that fired; deliveries to the users in `undelivered` fail.  The
\* outcome records whether a statement of the sweep raised (db_error).
run_event_payment(e, J, c, undelivered) ==
    IF events[e] = None \/ ~events[e][1].is_active
    THEN /\ c = 0 /\ undelivered = {}
         /\ jobs' = J
         /\ last' = Skipped("payment", e)
         /\ UNCHANGED <<balance, transaction_count, transactions, events, payment_log>>
    ELSE LET event == events[e][1]
             k == StatementsRun(event, c, undelivered)
             res == handle_payment_for_event(Ledger, event, k)
             notified == ChargeNotified(event, k)
             updated_event == set_last_run(event, now)
         IN  /\ c <= SweepChoices(event)
             /\ undelivered \subseteq ChargeNotified(event, c)
             /\ Commit(res.ledger)
             /\ IF res.raised
                THEN /\ jobs' = J
                     /\ last' = [op |-> "payment", status |-> "error", event |-> e,
                                 notified |-> notified, undelivered |-> undelivered,
                                 db_error |-> c < SweepChoices(event)]
                     /\ UNCHANGED <<events, payment_log>>
                ELSE /\ events' = [events EXCEPT ![e] = Some(updated_event)]
                     /\ jobs' = IF event.event_type = "recurring"
                                THEN schedule_event_jobs(J, e, updated_event, now).jobs
                                ELSE J
                     /\ payment_log' = IF res.processed
                                       THEN payment_log (+) SetToBag({<<e, DateOf(now)>>})
                                       ELSE payment_log
                     /\ last' = [op |-> "payment", status |-> "ok", event |-> e,
                                 notified |-> notified, undelivered |-> undelivered,
                                 db_error |-> c < SweepChoices(event)]

\* A due payment job is taken from the store and run.
PaymentFire(c, undelivered) ==
    /\ running
    /\ \E j \in Due(jobs, now) :
        /\ j.id[1] = "event_payment"
        /\ run_event_payment(j.id[2], jobs \ {j}, c, undelivered)
    /\ UNCHANGED <<activities, users, subscriptions, settings, event_seq, now, pending, running, date_edited>>

\* scheduler_jobs.handle_reminders_for_event: the users a reminder is sent
\* to.  The row's reminder_text is set exactly when its reminder_time is
\* positive.
ReminderNotified(event) ==
    IF event.reminder_time > 0 THEN Audience(event) ELSE {}

\* A due reminder job is taken from the store and run (run_event_reminder):
\* messages only.
ReminderFire ==
    /\ running
    /\ \E j \in Due(jobs, now) :
        /\ j.id[1] = "event_reminder"
        /\ jobs' = jobs \ {j}
        /\ last' = IF events[j.id[2]] = None \/ ~events[j.id[2]][1].is_active
                   THEN Skipped("reminder", j.id[2])
                   ELSE [op |-> "reminder", status |-> "ok", event |-> j.id[2],
                         notified |-> ReminderNotified(events[j.id[2]][1]), undelivered |-> {}]
    /\ UNCHANGED <<activities, ledger_vars, events, event_seq, now, pending, running, payment_log, date_edited>>

\* A variant of the reminder loop that ends at the first failed delivery.
ReminderAttempted_until_failure(event, undelivered) ==
    LET order == Ascending(ReminderNotified(event))
        failing == {i \in 1..Len(order) : order[i] \in undelivered}
        first == CHOOSE i \in failing : \A j \in failing : i <= j
    IN  IF failing = {} THEN ReminderNotified(event)
        ELSE {order[i] : i \in 1..first}

\* The loop at the end of handle_reminders_for_event, deliveries to the users
\* in `undelivered` failing: the users bot.send_message is called for. The
\* loop goes on to the next row unless a call raises out of its try block.
ReminderAttempted(event, undelivered) ==
    LET order == Ascending(ReminderNotified(event))
        raising == {i \in 1..Len(order) : send_message_raises(order[i], undelivered)}
        first == CHOOSE i \in raising : \A j \in raising : i <= j
    IN  IF raising = {} THEN ReminderNotified(event)
        ELSE {order[i] : i \in 1..first}

\* A due reminder job is taken from the store and run (run_event_reminder),
\* deliveries to the users in `undelivered` failing.
ReminderFireTo(undelivered) ==
    /\ running
    /\ \E j \in Due(jobs, now) :
        /\ j.id[1] = "event_reminder"
        /\ jobs' = jobs \ {j}
        /\ IF events[j.id[2]] = None \/ ~events[j.id[2]][1].is_active
           THEN /\ undelivered = {}
                /\ last' = Skipped("reminder", j.id[2])
           ELSE /\ undelivered \subseteq ReminderNotified(events[j.id[2]][1])
                /\ last' = [op |-> "reminder", status |-> "ok", event |-> j.id[2],
                            notified |-> ReminderAttempted(events[j.id[2]][1], undelivered),
                            undelivered |-> undelivered]
    /\ UNCHANGED <<activities, ledger_vars, events, event_seq, now, pending, running, payment_log, date_edited>>

\* ------------------------------------------------ event management
\* What an admin can type into the dialogs.
InputCosts == 0..MaxCost
InputLeads == 0..MaxLead
InputWeekdays == 0..MaxWeekday
InputTimes == 0..(DayLen - 1)

\* The row db.create_event inserts (is_active and last_run by default).
NewEvent(activity_id, event_type, event_date, weekday, event_time, cost, reminder_time) ==
    [activity_id |-> activity_id, event_type |-> event_type, event_date |-> event_date,
     weekday |-> weekday, event_time |-> event_time, cost |-> cost,
     reminder_time |-> reminder_time, last_run |-> None, is_active |-> TRUE]

\* A variant that stores the row and leaves the job store as it is.
StoreAndArm_stale(op, e, event) ==
    /\ events' = [events EXCEPT ![e] = Some(event)]
    /\ jobs' = jobs
    /\ last' = [op |-> op, status |-> "ok", event |-> e]

\* A handler that stores the row `event` for e and arms it.
StoreAndArm(op, e, event) ==
    LET armed == schedule_event_jobs(remove_event_jobs(jobs, e), e, event, now)
    IN  /\ events' = [events EXCEPT ![e] = Some(event)]
        /\ jobs' = armed.jobs
        /\ last' = [op |-> op, status |-> IF armed.raised THEN "error" ELSE "ok", event |-> e]

\* The creation dialog and create_event_from_state: process_event_date
\* refuses a date before now; the id is the next AUTOINCREMENT value.
create_event_from_state(activity_id, event_type, event_date, weekday, event_time, cost, reminder_time) ==
    /\ running
    /\ event_seq < MaxEvents
    /\ activity_id \in activities
    /\ IF event_type = "single"
       THEN event_date # None /\ event_date[1] >= now /\ weekday = None /\ event_time = None
       ELSE event_date = None /\ weekday # None /\ event_time # None
    /\ event_seq' = event_seq + 1
    /\ StoreAndArm("create_event", event_seq + 1,
                   NewEvent(activity_id, event_type, event_date, weekday, event_time, cost,
                            reminder_time))
    /\ UNCHANGED <<activities, ledger_vars, now, pending, running, payment_log, date_edited>>

\* update_event_date, the handler of a message in state waiting_for_new_date
\* while the dialog's data holds event_id = e: any date is written to the
\* row, the event is re-armed.
update_event_date_in_state(e, new_date) ==
    /\ running
    /\ events[e] # None
    /\ StoreAndArm("update_event_date", e, [events[e][1] EXCEPT !.event_date = Some(new_date)])
    /\ date_edited' = IF events[e][1].event_date = Some(new_date) THEN date_edited
                      ELSE date_edited \cup {e}
    /\ UNCHANGED <<activities, ledger_vars, event_seq, now, pending, running, payment_log>>

\* The schedule edit of the single event e: process_edit_event_schedule puts
\* the dialog in waiting_for_new_date with event_id = e, then the date comes.
update_event_date(e, new_date) ==
    /\ events[e] # None /\ events[e][1].event_type = "single"
    /\ update_event_date_in_state(e, new_date)

\* The same edit begun for the single event `first`, with another event
\* picked from the /edit_event list before the date is typed:
\* process_edit_event_selection writes event_id = e into the dialog's data
\* and leaves the dialog's state as it is.
update_event_date_reselected(first, e, new_date) ==
    /\ events[first] # None /\ events[first][1].event_type = "single"
    /\ update_event_date_in_state(e, new_date)

\* update_event_time, the handler of a message in state waiting_for_new_time
\* while the dialog's data holds event_id = e and the weekday chosen in
\* update_event_weekday.
update_event_time_in_state(e, weekday, new_time) ==
    /\ running
    /\ events[e] # None
    /\ StoreAndArm("update_event_time", e,
                   [events[e][1] EXCEPT !.weekday = Some(weekday), !.event_time = Some(new_time)])
    /\ date_edited' = IF events[e][1].weekday = Some(weekday) /\ events[e][1].event_time = Some(new_time)
                      THEN date_edited ELSE date_edited \cup {e}
    /\ UNCHANGED <<activities, ledger_vars, event_seq, now, pending, running, payment_log>>

\* The schedule edit of the recurring event e: process_edit_event_schedule,
\* update_event_weekday, update_event_time.
update_event_time(e, weekday, new_time) ==
    /\ events[e] # None /\ events[e][1].event_type = "recurring"
    /\ update_event_time_in_state(e, weekday, new_time)

\* The same edit begun for the recurring event `first`, with another event
\* picked from the /edit_event list before the time is typed.
update_event_time_reselected(first, e, weekday, new_time) ==
    /\ events[first] # None /\ events[first][1].event_type = "recurring"
    /\ update_event_time_in_state(e, weekday, new_time)

\* A variant of the cost edit that also cancels the event's jobs.
update_event_cost_cancels_jobs(e, new_cost) ==
    /\ running
    /\ events[e] # None
    /\ events' = [events EXCEPT ![e] = Some([@[1] EXCEPT !.cost = new_cost])]
    /\ jobs' = remove_event_jobs(jobs, e)
    /\ last' = [op |-> "update_event_cost", status |-> "ok", event |-> e]
    /\ UNCHANGED <<activities, ledger_vars, event_seq, now, pending, running, payment_log, date_edited>>

\* update_event_cost: the row only.
update_event_cost(e, new_cost) ==
    /\ running
    /\ events[e] # None
    /\ events' = [events EXCEPT ![e] = Some([@[1] EXCEPT !.cost = new_cost])]
    /\ last' = [op |-> "update_event_cost", status |-> "ok", event |-> e]
    /\ UNCHANGED <<activities, ledger_vars, event_seq, jobs, now, pending, running, payment_log, date_edited>>

\* A variant in which a lead time of 0 cancels the payment job as well.
update_event_reminder_cancels_both(e, reminder_time) ==
    /\ running
    /\ events[e] # None
    /\ IF reminder_time = 0
       THEN /\ events' = [events EXCEPT ![e] = Some([@[1] EXCEPT !.reminder_time = 0])]
            /\ jobs' = remove_event_jobs(jobs, e)
            /\ last' = [op |-> "reminder_off", status |-> "ok", event |-> e]
       ELSE StoreAndArm("update_event_reminder", e,
                        [events[e][1] EXCEPT !.reminder_time = reminder_time])
    /\ UNCHANGED <<activities, ledger_vars, event_seq, now, pending, running, payment_log, date_edited>>

\* A variant that writes the lead time to the row and leaves the jobs alone.
update_event_reminder_row_only(e, reminder_time) ==
    /\ running
    /\ events[e] # None
    /\ events' = [events EXCEPT ![e] = Some([@[1] EXCEPT !.reminder_time = reminder_time])]
    /\ last' = [op |-> "update_event_reminder", status |-> "ok", event |-> e]
    /\ UNCHANGED <<activities, ledger_vars, event_seq, jobs, now, pending, running, payment_log,
                   date_edited>>

\* update_event_reminder_time / update_event_reminder_text: 0 switches the
\* reminder off and cancels the reminder job only; a positive lead re-arms.
update_event_reminder(e, reminder_time) ==
    /\ running
    /\ events[e] # None
    /\ IF reminder_time = 0
       THEN /\ events' = [events EXCEPT ![e] = Some([@[1] EXCEPT !.reminder_time = 0])]
            /\ jobs' = jobs \ ReminderJobs(jobs, e)
            /\ last' = [op |-> "reminder_off", status |-> "ok", event |-> e]
       ELSE StoreAndArm("update_event_reminder", e,
                        [events[e][1] EXCEPT !.reminder_time = reminder_time])
    /\ UNCHANGED <<activities, ledger_vars, event_seq, now, pending, running, payment_log, date_edited>>

\* scheduler.add_job when the job runner fails to add the ids in `refused`:
\* the call raises and the store is left as it was.
add_job_refused(J, job_id, run_date, refused) ==
    IF job_id \in refused
    THEN [jobs |-> J, raised |-> TRUE]
    ELSE add_job(J, job_id, run_date)

\* scheduler_jobs.schedule_event_jobs with such a job runner: the exception
\* of add_job is not caught and ends the call where it is raised.
schedule_event_jobs_refused(J, event_id, event, clock, refused) ==
    LET J0 == remove_event_jobs(J, event_id)
        next_run == get_next_run_time(event.event_type, event.event_date, event.weekday,
                                      event.event_time, event.last_run, clock)
    IN  IF next_run = None \/ next_run[1] < clock
        THEN [jobs |-> J0, raised |-> FALSE]
        ELSE LET p == add_job_refused(J0, PaymentJobId(event_id), next_run[1], refused)
                 reminder_datetime == next_run[1] - event.reminder_time
             IN  IF p.raised THEN p
                 ELSE IF event.reminder_time > 0 /\ reminder_datetime > clock
                 THEN add_job_refused(p.jobs, ReminderJobId(event_id), reminder_datetime, refused)
                 ELSE p

\* A handler that stores the row `event` for e and arms it, with such a job
\* runner. The row is written and committed before the jobs are touched. The
\* handlers have no try block around schedule_event_jobs and the dispatcher
\* has no error handler: when the call raises, the exception leaves the
\* handler before message.answer and nothing is sent to the admin (status
\* "error"); otherwise the success message is sent (status "ok").
StoreAndArm_refused(op, e, event, refused) ==
    LET armed == schedule_event_jobs_refused(remove_event_jobs(jobs, e), e, event, now, refused)
    IN  /\ events' = [events EXCEPT ![e] = Some(event)]
        /\ jobs' = armed.jobs
        /\ last' = [op |-> op, status |-> IF armed.raised THEN "error" ELSE "ok", event |-> e]

\* create_event_from_state with such a job runner.
create_event_from_state_refused(activity_id, event_type, event_date, weekday, event_time, cost, reminder_time, refused) ==
    /\ running
    /\ event_seq < MaxEvents
    /\ activity_id \in activities
    /\ IF event_type = "single"
       THEN event_date # None /\ event_date[1] >= now /\ weekday = None /\ event_time = None
       ELSE event_date = None /\ weekday # None /\ event_time # None
    /\ event_seq' = event_seq + 1
    /\ StoreAndArm_refused("create_event", event_seq + 1,
                           NewEvent(activity_id, event_type, event_date, weekday, event_time, cost,
                                    reminder_time), refused)
    /\ UNCHANGED <<activities, ledger_vars, now, pending, running, payment_log, date_edited>>

\* The schedule edit of the single event e with such a job runner.
update_event_date_refused(e, new_date, refused) ==
    /\ running
    /\ events[e] # None /\ events[e][1].event_type = "single"
    /\ StoreAndArm_refused("update_event_date", e,
                           [events[e][1] EXCEPT !.event_date = Some(new_date)], refused)
    /\ date_edited' = IF events[e][1].event_date = Some(new_date) THEN date_edited
                      ELSE date_edited \cup {e}
    /\ UNCHANGED <<activities, ledger_vars, event_seq, now, pending, running, payment_log>>

\* The schedule edit of the recurring event e with such a job runner.
update_event_time_refused(e, weekday, new_time, refused) ==
    /\ running
    /\ events[e] # None /\ events[e][1].event_type = "recurring"
    /\ StoreAndArm_refused("update_event_time", e,
                           [events[e][1] EXCEPT !.weekday = Some(weekday),
                                                !.event_time = Some(new_time)], refused)
    /\ date_edited' = IF events[e][1].weekday = Some(weekday) /\ events[e][1].event_time = Some(new_time)
                      THEN date_edited ELSE date_edited \cup {e}
    /\ UNCHANGED <<activities, ledger_vars, event_seq, now, pending, running, payment_log>>

\* update_event_reminder_text with such a job runner, for a lead above 0.
update_event_reminder_text_refused(e, reminder_time, refused) ==
    /\ running
    /\ events[e] # None
    /\ reminder_time > 0
    /\ StoreAndArm_refused("update_event_reminder", e,
                           [events[e][1] EXCEPT !.reminder_time = reminder_time], refused)
    /\ UNCHANGED <<activities, ledger_vars, event_seq, now, pending, running, payment_log, date_edited>>

\* /delete_event, confirmed: the jobs are cancelled, then the row is deleted.
delete_event(e) ==
    /\ running
    /\ events[e] # None
    /\ jobs' = remove_event_jobs(jobs, e)
    /\ events' = [events EXCEPT ![e] = None]
    /\ last' = [op |-> "delete_event", status |-> "ok", event |-> e]
    /\ UNCHANGED <<activities, ledger_vars, event_seq, now, pending, running, payment_log, date_edited>>

\* process_delete_activity, the handler of the confirmation button's callback
\* data: it looks the activity up and calls db.delete_activity; the events
\* and subscriptions that refer to the row go with it (ON DELETE CASCADE).
\* The job store is not touched.
process_delete_activity(activity_id) ==
    /\ running
    /\ activity_id \in activities
    /\ activities' = activities \ {activity_id}
    /\ events' = [e \in EventIds |->
                    IF events[e] # None /\ events[e][1].activity_id = activity_id
                    THEN None ELSE events[e]]
    /\ subscriptions' = {sub \in subscriptions : sub[2] # activity_id}
    /\ last' = [op |-> "delete_activity", status |-> "ok", activity |-> activity_id]
    /\ UNCHANGED <<users, balance, transaction_count, transactions, settings, event_seq, jobs,
                   now, pending, running, payment_log, date_edited>>

\* /delete_act as the bot's keyboards lead through it: the list leaves
\* activity 1 out and process_delete_confirmation refuses it, then the
\* confirmation button is pressed.
delete_activity(activity_id) ==
    /\ activity_id # GeneralActivity
    /\ process_delete_activity(activity_id)

\* ------------------------------------------------- process lifetime
\* The process ends: the in-memory job store and the handlers in flight go
\* with it.
Stop ==
    /\ running
    /\ running' = FALSE
    /\ jobs' = {}
    /\ pending' = {}
    /\ last' = [op |-> "stop", status |-> "ok"]
    /\ UNCHANGED <<activities, ledger_vars, events, event_seq, now, payment_log, date_edited>>

\* A start-up that arms no event.
ArmAll_none(J, k) == J

\* setup_scheduler's loop over db.get_all_events(), the first k ids done.
RECURSIVE ArmAll(_, _)
ArmAll(J, k) ==
    IF k = 0 THEN J
    ELSE LET before == ArmAll(J, k - 1)
         IN  IF events[k] # None /\ events[k][1].is_active
             THEN schedule_event_jobs(before, k, events[k][1], now).jobs
             ELSE before

\* main / setup_scheduler: a new scheduler with the daily job and the jobs of
\* every active event.
Start ==
    /\ ~running
    /\ running' = TRUE
    /\ jobs' = ArmAll({[id |-> CronJobId, run_date |-> CronNext(now)]}, MaxEvents)
    /\ last' = [op |-> "start_process", status |-> "ok"]
    /\ UNCHANGED <<activities, ledger_vars, events, event_seq, now, pending, payment_log, date_edited>>

\* ---------------------------------------------------- subscriptions
\* process_subscribe: db.add_subscription (INSERT OR IGNORE).
process_subscribe(u, activity_id) ==
    /\ running
    /\ u \in users /\ activity_id \in activities
    /\ subscriptions' = subscriptions \cup {<<u, activity_id>>}
    /\ last' = [op |-> "subscribe", status |-> "ok"]
    /\ UNCHANGED <<users, balance, transaction_count, transactions, settings, now, pending, sched_vars>>

\* process_unsubscribe: db.remove_subscription leaves activity 1 alone.
process_unsubscribe(u, activity_id) ==
    /\ running
    /\ u \in users
    /\ subscriptions' = IF activity_id = GeneralActivity THEN subscriptions
                        ELSE subscriptions \ {<<u, activity_id>>}
    /\ last' = [op |-> "unsubscribe", status |-> "ok"]
    /\ UNCHANGED <<users, balance, transaction_count, transactions, settings, now, pending, sched_vars>>

\* ---------------------------------------- the scheduler specification
\* The database of a community whose users have joined (no bonus, demurrage
\* off), user 1 subscribed to the second activity; spent event ids: `spent`.
InitEvents(spent) ==
    /\ users = AccountIds
    /\ balance = [u \in AccountIds |-> 0]
    /\ transaction_count = [u \in AccountIds |-> 0]
    /\ transactions = <<>>
    /\ subscriptions = {<<u, GeneralActivity>> : u \in UserIds} \cup {<<1, GeneralActivity + 1>>}
    /\ settings = [welcome_bonus_amount |-> 0, exchange_rate |-> 1,
                   demurrage_enabled |-> FALSE, demurrage_rate_pct |-> 1,
                   demurrage_interval_days |-> 1, demurrage_last_run |-> -1]
    /\ activities = ActivityIds
    /\ events = [e \in EventIds |-> None]
    /\ event_seq = spent
    /\ jobs = {[id |-> CronJobId, run_date |-> CronNext(0)]}
    /\ now = 0
    /\ running = TRUE
    /\ payment_log = EmptyBag
    /\ date_edited = {}
    /\ pending = {}
    /\ last = [op |-> "init", status |-> "ok"]

\* Payment jobs fire while the log of processed sweeps is below its bound.
PaymentFireBounded(c, undelivered) ==
    /\ BagCardinality(payment_log) < MaxFires
    /\ PaymentFire(c, undelivered)

\* One event over more than a week: the earlier events of the community
\* have been deleted, their ids are spent.
InitSched == InitEvents(MaxEvents - 1)

TickSched == Tick(MaxTime)

NextSched ==
    \/ TickSched
    \/ \E d \in 0..MaxDateAhead, r \in InputLeads :
          create_event_from_state(GeneralActivity, "single", Some(now + d), None, None, MaxCost, r)
    \/ \E w \in InputWeekdays, t \in InputTimes, r \in InputLeads :
          create_event_from_state(GeneralActivity, "recurring", None, Some(w), Some(t), MaxCost, r)
    \/ \E e \in EventIds, d \in (0 - 1)..MaxDateAhead : now + d >= 0 /\ update_event_date(e, now + d)
    \/ \E e \in EventIds, w \in InputWeekdays, t \in InputTimes : update_event_time(e, w, t)
    \/ \E e \in EventIds, r \in InputLeads : update_event_reminder(e, r)
    \/ \E e \in EventIds : delete_event(e)
    \/ Stop
    \/ Start
    \/ \E c \in 0..(3 * NUsers + 1) : PaymentFireBounded(c, {})
    \/ ReminderFire
    \/ DemurrageFire(0)

SpecSched == InitSched /\ [][NextSched]_vars

\* Several events over a few days.
InitArm == InitEvents(0)

TickArm == Tick(ArmMaxTime)

NextArm ==
    \/ TickArm
    \/ \E d \in 0..MaxDateAhead, r \in InputLeads :
          create_event_from_state(GeneralActivity, "single", Some(now + d), None, None, MaxCost, r)
    \/ \E w \in InputWeekdays, t \in InputTimes, r \in InputLeads :
          create_event_from_state(GeneralActivity, "recurring", None, Some(w), Some(t), MaxCost, r)
    \/ \E e \in EventIds, d \in (0 - 1)..MaxDateAhead : now + d >= 0 /\ update_event_date(e, now + d)
    \/ \E e \in EventIds, w \in InputWeekdays, t \in InputTimes : update_event_time(e, w, t)
    \/ \E e \in EventIds, r \in InputLeads : update_event_reminder(e, r)
    \/ \E e \in EventIds : delete_event(e)
    \/ Stop
    \/ Start
    \/ \E c \in 0..(3 * NUsers + 1) : PaymentFireBounded(c, {})
    \/ ReminderFire
    \/ DemurrageFire(0)

SpecArm == InitArm /\ [][NextArm]_vars

\* One event of any audience and cost over a few days, users subscribing and
\* unsubscribing.
InitSweep == InitEvents(MaxEvents - 1)

TickSweep == Tick(ArmMaxTime)

NextSweep ==
    \/ TickSweep
    \/ \E a \in ActivityIds, d \in 0..MaxDateAhead, c \in InputCosts, r \in InputLeads :
          create_event_from_state(a, "single", Some(now + d), None, None, c, r)
    \/ \E a \in ActivityIds, w \in InputWeekdays, t \in InputTimes, c \in InputCosts, r \in InputLeads :
          create_event_from_state(a, "recurring", None, Some(w), Some(t), c, r)
    \/ \E e \in EventIds, c \in InputCosts : update_event_cost(e, c)
    \/ \E u \in UserIds : process_subscribe(u, GeneralActivity + 1)
    \/ \E u \in UserIds, a \in ActivityIds : process_unsubscribe(u, a)
    \/ \E a \in ActivityIds : delete_activity(a)
    \/ \E c \in 0..(3 * NUsers + 1), undelivered \in SUBSET UserIds :
          PaymentFireBounded(c, undelivered)
    \/ ReminderFire
    \/ DemurrageFire(0)

SpecSweep == InitSweep /\ [][NextSweep]_vars

\* ------------------------------------- the reminder specification
\* One event of any audience over a few days, users subscribing and
\* unsubscribing, reminders whose delivery fails for some users.
NextRemind ==
    \/ TickSweep
    \/ \E a \in ActivityIds, d \in 0..MaxDateAhead, r \in InputLeads :
          create_event_from_state(a, "single", Some(now + d), None, None, MaxCost, r)
    \/ \E a \in ActivityIds, w \in InputWeekdays, t \in InputTimes, r \in InputLeads :
          create_event_from_state(a, "recurring", None, Some(w), Some(t), MaxCost, r)
    \/ \E u \in UserIds : process_subscribe(u, GeneralActivity + 1)
    \/ \E u \in UserIds, a \in ActivityIds : process_unsubscribe(u, a)
    \/ \E a \in ActivityIds : delete_activity(a)
    \/ \E c \in 0..(3 * NUsers + 1) : PaymentFireBounded(c, {})
    \/ \E undelivered \in SUBSET UserIds : ReminderFireTo(undelivered)
    \/ DemurrageFire(0)

SpecRemind == InitSweep /\ [][NextRemind]_vars

\* ----------------------------------------- the cost-edit specification
\* One event of activity 1 created at the cost MaxCost; its cost is edited
\* to nothing or to more while its jobs wait.
EditedCosts == {0, MaxCost + 1}

NextCost ==
    \/ TickSweep
    \/ \E d \in 0..MaxDateAhead, r \in InputLeads :
          create_event_from_state(GeneralActivity, "single", Some(now + d), None, None, MaxCost, r)
    \/ \E w \in InputWeekdays, t \in InputTimes, r \in InputLeads :
          create_event_from_state(GeneralActivity, "recurring", None, Some(w), Some(t), MaxCost, r)
    \/ \E e \in EventIds, c \in EditedCosts : update_event_cost(e, c)
    \/ \E c \in 0..(3 * NUsers + 1) : PaymentFireBounded(c, {})
    \/ ReminderFire
    \/ DemurrageFire(0)

SpecCost == InitSweep /\ [][NextCost]_vars

\* ------------------------------------- the membership specification
\* A fresh database: users join by /start and by a paid top-up, subscribe
\* and unsubscribe, and callback queries reach the handler that deletes an
\* activity with any activity id in their data.
NextMembers ==
    \/ \E u \in UserIds : cmd_start(u)
    \/ \E u \in UserIds, a \in Amounts : handle_tribute_webhook(u, a)
    \/ \E u \in UserIds, a \in ActivityIds : process_subscribe(u, a)
    \/ \E u \in UserIds, a \in ActivityIds : process_unsubscribe(u, a)
    \/ \E a \in ActivityIds : process_delete_activity(a)

SpecMembers == Init /\ [][NextMembers]_vars

\* ------------------------------------------ the dialog specification
\* Two events at one moment: admins create, edit and delete events, and
\* pick events from the /edit_event list while a schedule edit is open.
NextForms ==
    \/ \E d \in 0..MaxDateAhead, c \in InputCosts, r \in InputLeads :
          create_event_from_state(GeneralActivity, "single", Some(now + d), None, None, c, r)
    \/ \E w \in InputWeekdays, t \in InputTimes, c \in InputCosts, r \in InputLeads :
          create_event_from_state(GeneralActivity, "recurring", None, Some(w), Some(t), c, r)
    \/ \E e \in EventIds, c \in InputCosts : update_event_cost(e, c)
    \/ \E first \in EventIds, e \in EventIds, d \in 0..MaxDateAhead :
          update_event_date_reselected(first, e, now + d)
    \/ \E first \in EventIds, e \in EventIds, w \in InputWeekdays, t \in InputTimes :
          update_event_time_reselected(first, e, w, t)
    \/ \E e \in EventIds : delete_event(e)

SpecForms == InitArm /\ [][NextForms]_vars

\* ------------------------------------- the job runner specification
\* Two events at one moment, and a job runner that may fail to add the
\* payment job or the reminder job of the event a handler arms.
RefusedSets(e) == SUBSET {PaymentJobId(e), ReminderJobId(e)}

NextRefused ==
    \/ \E d \in 0..MaxDateAhead, r \in InputLeads, refused \in RefusedSets(event_seq + 1) :
          create_event_from_state_refused(GeneralActivity, "single", Some(now + d), None, None,
                                          MaxCost, r, refused)
    \/ \E w \in InputWeekdays, t \in InputTimes, r \in InputLeads,
          refused \in RefusedSets(event_seq + 1) :
          create_event_from_state_refused(GeneralActivity, "recurring", None, Some(w), Some(t),
                                          MaxCost, r, refused)
    \/ \E e \in EventIds, d \in 0..MaxDateAhead : \E refused \in RefusedSets(e) :
          update_event_date_refused(e, now + d, refused)
    \/ \E e \in EventIds, w \in InputWeekdays, t \in InputTimes : \E refused \in RefusedSets(e) :
          update_event_time_refused(e, w, t, refused)
    \/ \E e \in EventIds, r \in InputLeads : \E refused \in RefusedSets(e) :
          update_event_reminder_text_refused(e, r, refused)
    \/ \E e \in EventIds : delete_event(e)

SpecRefused == InitArm /\ [][NextRefused]_vars

\* ------------------------------------------- the caller specification
\* The handlers of events and activities with the user who sends the
\* message or presses the button.  setup_super_admin gives the flag to the
\* super admin; nobody is granted the flag in this specification.
Admins == {SuperAdminId}

\* utils.is_admin
is_admin(telegram_id) == telegram_id \in users /\ telegram_id \in Admins

\* The frame of a handler that answers and changes nothing.
AnswerOnly(op, status, caller) ==
    /\ last' = [op |-> op, status |-> status, caller |-> caller]
    /\ UNCHANGED <<activities, ledger_vars, events, event_seq, jobs, now, pending, running,
                   payment_log, date_edited>>

\* /create_event, /edit_event, /delete_event and /delete_act: each begins
\* with the is_admin check and then shows a keyboard.
cmd_with_admin_check(caller, op) ==
    /\ running
    /\ AnswerOnly(op, IF is_admin(caller) THEN "keyboard" ELSE "no_rights", caller)

\* The creation dialog by `caller`: it is entered through /create_event or
\* the create_event_for_ button, both of which check is_admin; its later
\* steps are filtered by the dialog state of that user.
create_event_by(caller, event_type, event_date, weekday, event_time, reminder_time) ==
    /\ running
    /\ IF ~is_admin(caller)
       THEN AnswerOnly("create_event", "no_rights", caller)
       ELSE /\ event_seq < MaxEvents
            /\ GeneralActivity \in activities
            /\ IF event_type = "single"
               THEN event_date # None /\ event_date[1] >= now /\ weekday = None /\ event_time = None
               ELSE event_date = None /\ weekday # None /\ event_time # None
            /\ LET e == event_seq + 1
                   event == NewEvent(GeneralActivity, event_type, event_date, weekday, event_time,
                                     MaxCost, reminder_time)
               IN  /\ event_seq' = e
                   /\ events' = [events EXCEPT ![e] = Some(event)]
                   /\ jobs' = schedule_event_jobs(jobs, e, event, now).jobs
                   /\ last' = [op |-> "create_event", status |-> "ok", caller |-> caller]
            /\ UNCHANGED <<activities, ledger_vars, now, pending, running, payment_log, date_edited>>

\* The schedule edit of a single event by `caller`: the callbacks edit_event_
\* (process_edit_event_selection) and edit_evt_schedule_
\* (process_edit_event_schedule), then the date (update_event_date). None of
\* the three looks at the caller's flag.
edit_event_date_by(caller, e, new_date) ==
    /\ running
    /\ caller \in users \ {FundId}
    /\ events[e] # None /\ events[e][1].event_type = "single"
    /\ LET event == [events[e][1] EXCEPT !.event_date = Some(new_date)]
       IN  /\ events' = [events EXCEPT ![e] = Some(event)]
           /\ jobs' = schedule_event_jobs(remove_event_jobs(jobs, e), e, event, now).jobs
           /\ date_edited' = IF events[e][1].event_date = Some(new_date) THEN date_edited
                             ELSE date_edited \cup {e}
           /\ last' = [op |-> "update_event_date", status |-> "ok", caller |-> caller]
    /\ UNCHANGED <<activities, ledger_vars, event_seq, now, pending, running, payment_log>>

\* The cost edit by `caller`: edit_evt_cost_ (process_edit_event_cost), then
\* the cost (update_event_cost).
edit_event_cost_by(caller, e, new_cost) ==
    /\ running
    /\ caller \in users \ {FundId}
    /\ events[e] # None
    /\ events' = [events EXCEPT ![e] = Some([@[1] EXCEPT !.cost = new_cost])]
    /\ last' = [op |-> "update_event_cost", status |-> "ok", caller |-> caller]
    /\ UNCHANGED <<activities, ledger_vars, event_seq, jobs, now, pending, running, payment_log,
                   date_edited>>

\* The event deletion by `caller`: the callbacks delete_event_ and
\* confirm_delete_event_ of event_handlers.
delete_event_by(caller, e) ==
    /\ running
    /\ caller \in users \ {FundId}
    /\ events[e] # None
    /\ jobs' = remove_event_jobs(jobs, e)
    /\ events' = [events EXCEPT ![e] = None]
    /\ last' = [op |-> "delete_event", status |-> "ok", caller |-> caller]
    /\ UNCHANGED <<activities, ledger_vars, event_seq, now, pending, running, payment_log,
                   date_edited>>

\* The activity deletion by `caller`: the callbacks delete_activity_ (which
\* refuses activity 1) and confirm_delete_activity_ of activity_handlers.
delete_activity_by(caller, activity_id) ==
    /\ running
    /\ caller \in users \ {FundId}
    /\ activity_id # GeneralActivity
    /\ activity_id \in activities
    /\ activities' = activities \ {activity_id}
    /\ events' = [e \in EventIds |->
                    IF events[e] # None /\ events[e][1].activity_id = activity_id
                    THEN None ELSE events[e]]
    /\ subscriptions' = {sub \in subscriptions : sub[2] # activity_id}
    /\ last' = [op |-> "delete_activity", status |-> "ok", caller |-> caller]
    /\ UNCHANGED <<users, balance, transaction_count, transactions, settings, event_seq, jobs,
                   now, pending, running, payment_log, date_edited>>

AdminMenus == {"create_event", "edit_event", "delete_event", "delete_act"}

NextCallers ==
    \/ \E caller \in UserIds, op \in AdminMenus : cmd_with_admin_check(caller, op)
    \/ \E caller \in UserIds, d \in 0..MaxDateAhead, r \in InputLeads :
          create_event_by(caller, "single", Some(now + d), None, None, r)
    \/ \E caller \in UserIds, w \in InputWeekdays, t \in InputTimes, r \in InputLeads :
          create_event_by(caller, "recurring", None, Some(w), Some(t), r)
    \/ \E caller \in UserIds, e \in EventIds, d \in 0..MaxDateAhead :
          edit_event_date_by(caller, e, now + d)
    \/ \E caller \in UserIds, e \in EventIds, c \in InputCosts : edit_event_cost_by(caller, e, c)
    \/ \E caller \in UserIds, e \in EventIds : delete_event_by(caller, e)
    \/ \E caller \in UserIds, a \in ActivityIds : delete_activity_by(caller, a)

SpecCallers == InitArm /\ [][NextCallers]_vars

\* ------------------------------------- next run time, as a function
\* get_next_run_time applied at the current moment to arguments of the
\* caller's choice; the arguments and the result are kept in `last`.
apply_get_next_run_time(event_type, event_date, weekday, event_time) ==
    /\ last' = [op |-> "get_next_run_time", status |-> "ok", clock |-> now,
                event_type |-> event_type, event_date |-> event_date, weekday |-> weekday,
                event_time |-> event_time,
                result |-> get_next_run_time(event_type, event_date, weekday, event_time, None, now)]
    /\ UNCHANGED <<ledger_vars, sched_vars, now, pending>>

CalcTimes == 0..(CalcDays * DayLen)
OptionalOf(S) == {None} \cup {Some(x) : x \in S}

\* Any moment of the first days, nothing else going on.
InitCalc ==
    /\ users = AccountIds
    /\ balance = [u \in AccountIds |-> 0]
    /\ transaction_count = [u \in AccountIds |-> 0]
    /\ transactions = <<>>
    /\ subscriptions = {<<u, GeneralActivity>> : u \in UserIds}
    /\ settings = [welcome_bonus_amount |-> 0, exchange_rate |-> 1,
                   demurrage_enabled |-> FALSE, demurrage_rate_pct |-> 1,
                   demurrage_interval_days |-> 1, demurrage_last_run |-> -1]
    /\ activities = ActivityIds
    /\ events = [e \in EventIds |-> None]
    /\ event_seq = 0
    /\ now \in CalcTimes
    /\ jobs = {[id |-> CronJobId, run_date |-> CronNext(now)]}
    /\ running = TRUE
    /\ payment_log = EmptyBag
    /\ date_edited = {}
    /\ pending = {}
    /\ last = [op |-> "init", status |-> "ok"]

NextCalc ==
    \/ \E d \in OptionalOf(CalcTimes) : apply_get_next_run_time("single", d, None, None)
    \/ \E w \in OptionalOf(0..(DaysPerWeek - 1)), t \in OptionalOf(InputTimes) :
          apply_get_next_run_time("recurring", None, w, t)

SpecCalc == InitCalc /\ [][NextCalc]_vars

\* ------------------------------------ the job store, as functions
\* schedule_event_jobs applied at the current moment to a row of the
\* caller's choice for event e; the row, the number of the event's jobs before the call
\* and the outcome are kept in `last`.
apply_schedule_event_jobs(e, row) ==
    LET armed == schedule_event_jobs(jobs, e, row, now)
    IN  /\ jobs' = armed.jobs
        /\ last' = [op |-> "schedule_event_jobs", status |-> IF armed.raised THEN "error" ELSE "ok",
                    event |-> e, row |-> row,
                    armed_before |-> Cardinality(PaymentJobs(jobs, e) \cup ReminderJobs(jobs, e))]
        /\ UNCHANGED <<activities, ledger_vars, events, event_seq, now, pending, running, payment_log,
                       date_edited>>

\* remove_event_jobs applied to event e: the two ids in turn, an exception
\* ends the loop.
apply_remove_event_jobs(e) ==
    LET without_payment == {j \in jobs : j.id # PaymentJobId(e)}
        raised_first == remove_job_raises(jobs, PaymentJobId(e))
        raised_second == remove_job_raises(without_payment, ReminderJobId(e))
    IN  /\ jobs' = IF raised_first THEN jobs
                   ELSE IF raised_second THEN without_payment
                   ELSE remove_event_jobs(jobs, e)
        /\ last' = [op |-> "remove_event_jobs",
                    status |-> IF raised_first \/ raised_second THEN "error" ELSE "ok",
                    event |-> e, armed_before |-> Cardinality(PaymentJobs(jobs, e) \cup ReminderJobs(jobs, e))]
        /\ UNCHANGED <<activities, ledger_vars, events, event_seq, now, pending, running, payment_log,
                       date_edited>>

\* Rows of table events with any combination of schedule fields.
JobTimes == 0..JobMaxTime
AnyRows ==
    {NewEvent(GeneralActivity, event_type, event_date, weekday, event_time, MaxCost, reminder_time) :
        event_type \in {"single", "recurring"},
        event_date \in OptionalOf(0..(JobMaxTime + MaxDateAhead)),
        weekday \in OptionalOf(InputWeekdays),
        event_time \in OptionalOf(InputTimes),
        reminder_time \in InputLeads}

\* Any moment of the first day, an empty job store but for the daily job.
InitJobs ==
    /\ users = AccountIds
    /\ balance = [u \in AccountIds |-> 0]
    /\ transaction_count = [u \in AccountIds |-> 0]
    /\ transactions = <<>>
    /\ subscriptions = {<<u, GeneralActivity>> : u \in UserIds}
    /\ settings = [welcome_bonus_amount |-> 0, exchange_rate |-> 1,
                   demurrage_enabled |-> FALSE, demurrage_rate_pct |-> 1,
                   demurrage_interval_days |-> 1, demurrage_last_run |-> -1]
    /\ activities = ActivityIds
    /\ events = [e \in EventIds |-> None]
    /\ event_seq = 0
    /\ now \in JobTimes
    /\ jobs = {[id |-> CronJobId, run_date |-> CronNext(now)]}
    /\ running = TRUE
    /\ payment_log = EmptyBag
    /\ date_edited = {}
    /\ pending = {}
    /\ last = [op |-> "init", status |-> "ok"]

NextJobs ==
    \/ \E e \in EventIds, row \in AnyRows : apply_schedule_event_jobs(e, row)
    \/ \E e \in EventIds : apply_remove_event_jobs(e)

SpecJobs == InitJobs /\ [][NextJobs]_vars

\* ================================================= ledger properties
TransferRow(from, to, amount) ==
    [from_user_id |-> from, to_user_id |-> to, amount |-> amount, type |-> "transfer"]
LedgerUnchanged ==
    /\ balance' = balance
    /\ transaction_count' = transaction_count
    /\ transactions' = transactions

\* C1: every account's balance, the fund included, is the sum of the amounts
\* of the transactions to it minus the sum of those from it.
C1_BalanceIsSumOfRows ==
    \A u \in AccountIds : balance[u] = Credits(transactions, u) - Debits(transactions, u)

\* C4: a committed transfer of a > 0 from A (balance >= a) to B takes a from
\* A, gives a to B, appends the one row transfer A -> B of a, adds 1 to the
\* transaction_count of A and of B, leaves every other account as it was and
\* keeps the sum of the balances.
C4_TransferEffect ==
    [][(last'.op = "transfer" /\ last'.status \in {"ok", "error_after_commit"}) =>
        LET A == last'.from_user
            B == last'.to_user
            a == last'.amount
        IN  /\ a > 0 /\ balance[A] >= a /\ A # B
            /\ balance'[A] = balance[A] - a
            /\ balance'[B] = balance[B] + a
            /\ transactions' = Append(transactions, TransferRow(A, B, a))
            /\ transaction_count'[A] = transaction_count[A] + 1
            /\ transaction_count'[B] = transaction_count[B] + 1
            /\ \A u \in AccountIds \ {A, B} :
                    balance'[u] = balance[u] /\ transaction_count'[u] = transaction_count[u]
            /\ SumOver(balance', AccountIds) = SumOver(balance, AccountIds)]_vars

\* A sender of the fund's books received a transfer in the last step.
C4_Witness ==
    /\ last.op = "transfer" /\ last.status = "ok"
    /\ last.to_user = FundId
    /\ transactions # <<>>
    /\ transactions[Len(transactions)] = TransferRow(last.from_user, FundId, last.amount)

\* C5: a transfer that fails inside its transaction block, after any number
\* of its statements, and a transfer that is rejected leave balances,
\* transaction counts and the transactions table as they were; a transfer
\* changes the ledger only when the sender's balance covers the amount.
C5_TransferRollback ==
    [][(last'.op = "transfer") =>
        /\ last'.status \in {"error", "rejected"} => LedgerUnchanged
        /\ ~LedgerUnchanged =>
              /\ last'.status \in {"ok", "error_after_commit"}
              /\ balance[last'.from_user] >= last'.amount]_vars

\* A transfer that the balance check let through has failed and some account
\* still holds money.
C5_Witness ==
    /\ last.op = "transfer" /\ last.status = "error"
    /\ \E u \in UserIds : balance[u] >= 1
    /\ \A i \in 1..Len(transactions) : transactions[i].type # "transfer"

\* ============================================== event-fee properties
\* The rows the transactions table gained in the step.
NewRows == SubSeq(transactions', Len(transactions) + 1, Len(transactions'))

\* C2: when the payment job of an active event with cost c > 0 and an
\* audience of n members fires and succeeds, each member's balance goes down
\* by c, the fund's balance goes up by n * c, and exactly n event_fee rows
\* (member -> fund, amount c) are appended.
C2_SweepEffect ==
    [][(last'.op = "payment" /\ last'.status = "ok" /\ events[last'.event][1].cost > 0) =>
        LET event == events[last'.event][1]
            c == event.cost
            members == Audience(event)
            n == Cardinality(members)
        IN  /\ \A u \in members : balance'[u] = balance[u] - c
            /\ balance'[FundId] = balance[FundId] + n * c
            /\ Len(NewRows) = n
            /\ \A u \in members : \E i \in 1..n :
                  NewRows[i] = [from_user_id |-> u, to_user_id |-> FundId, amount |-> c,
                                type |-> "event_fee"]
            /\ SubSeq(transactions', 1, Len(transactions)) = transactions]_vars

\* C3: a sweep that fails at any point of its loop leaves every balance and
\* transaction_count as it was, adds no row, and keeps the sum of the balances.
C3_SweepAllOrNothing ==
    [][(last'.op = "payment" /\ last'.status = "error") =>
        /\ LedgerUnchanged
        /\ SumOver(balance', AccountIds) = SumOver(balance, AccountIds)]_vars

\* The sweep of an event with a cost and at least two members has failed.
C3_Witness ==
    /\ last.op = "payment" /\ last.status = "error"
    /\ events[last.event] # None
    /\ events[last.event][1].cost > 0
    /\ Cardinality(Audience(events[last.event][1])) >= 2
    /\ PaymentJobs(jobs, last.event) = {}

\* ================================================ arming properties
ArmOps == {"create_event", "update_event_date", "update_event_time", "update_event_reminder"}
JobsOf(J, e) == PaymentJobs(J, e) \cup ReminderJobs(J, e)
NextRunOf(event, clock) ==
    get_next_run_time(event.event_type, event.event_date, event.weekday, event.event_time,
                      event.last_run, clock)

\* C6: every call of a handler that arms an event succeeds, and leaves, for
\* an event whose next run is in the future, exactly one payment job (at that
\* next run) and at most one reminder job under the event's ids, whatever
\* was armed before; the jobs of every other event and the daily job are as
\* they were.
C6_ArmIdempotent ==
    [][(last'.op \in ArmOps) =>
        LET e == last'.event
            next_run == NextRunOf(events'[e][1], now)
        IN  /\ last'.status = "ok"
            /\ next_run # None =>
                  /\ PaymentJobs(jobs', e) = {[id |-> PaymentJobId(e), run_date |-> next_run[1]]}
                  /\ Cardinality(ReminderJobs(jobs', e)) <= 1
            /\ jobs' \ JobsOf(jobs', e) = jobs \ JobsOf(jobs, e)]_vars

\* An event that was armed at its creation has been armed again by an edit,
\* it holds one payment and one reminder job, and another event holds jobs too.
C6_Witness ==
    /\ last.op = "update_event_reminder" /\ last.status = "ok"
    /\ Cardinality(PaymentJobs(jobs, last.event)) = 1
    /\ Cardinality(ReminderJobs(jobs, last.event)) = 1
    /\ \E e2 \in EventIds \ {last.event} : JobsOf(jobs, e2) # {}

\* ============================================== next-run properties
\* C7: for a recurring event with weekday w and time t the result is the
\* earliest moment strictly after now that falls on weekday w at time t; it
\* is never at or before now and never more than 7 days after now.
C7_RecurringNextRun ==
    (last.op = "get_next_run_time" /\ last.event_type = "recurring"
        /\ last.weekday # None /\ last.event_time # None) =>
        /\ last.result # None
        /\ LET r == last.result[1]
               w == last.weekday[1]
               t == last.event_time[1]
           IN  /\ r > last.clock
               /\ Weekday(r) = w /\ TimeOfDay(r) = t
               /\ \A m \in (last.clock + 1)..(r - 1) : ~(Weekday(m) = w /\ TimeOfDay(m) = t)
               /\ r - last.clock <= DaysPerWeek * DayLen

\* The slot of today has come or passed, and the result is next week's.
C7_Witness ==
    /\ last.op = "get_next_run_time" /\ last.event_type = "recurring"
    /\ last.weekday = Some(Weekday(last.clock))
    /\ last.event_time = Some(TimeOfDay(last.clock))
    /\ last.result = Some(last.clock + DaysPerWeek * DayLen)

\* C8: for a single event the result is event_date when event_date is
\* strictly later than now, and nothing otherwise (event_date equal to now,
\* earlier, or absent).
C8_SingleNextRun ==
    (last.op = "get_next_run_time" /\ last.event_type = "single") =>
        IF last.event_date # None /\ last.event_date[1] > last.clock
        THEN last.result = last.event_date
        ELSE last.result = None

\* The date of the event is this very moment: no next run.
C8_Witness ==
    /\ last.op = "get_next_run_time" /\ last.event_type = "single"
    /\ last.event_date = Some(last.clock)
    /\ last.result = None

\* ============================================ at-most-once properties
Dates == 0..(HorizonDays + 1)
\* The number of processed sweeps of event e, on date d and in all.
ChargesOn(e, d) == CopiesIn(<<e, d>>, payment_log)
Charges(e) == SumOver([d \in Dates |-> ChargesOn(e, d)], Dates)
IsEvent(e, type) == events[e] # None /\ events[e][1].event_type = type

\* C9: a single event whose date was never changed is charged at most once,
\* and once its payment job has run it holds no payment and no reminder job,
\* while its row stays active.
C9_SingleAtMostOnce ==
    \A e \in EventIds : (IsEvent(e, "single") /\ e \notin date_edited) =>
        /\ Charges(e) <= 1
        /\ events[e][1].last_run # None => (JobsOf(jobs, e) = {} /\ events[e][1].is_active)

\* The event was charged, and the process has been started again since.
C9_Witness ==
    /\ last.op = "start_process"
    /\ \E e \in EventIds :
        /\ IsEvent(e, "single") /\ e \notin date_edited
        /\ Charges(e) = 1 /\ events[e][1].last_run # None
        /\ events[e][1].reminder_time > 0

\* C10: a recurring event whose weekday and time were never changed is
\* charged at most once on any date.
C10_RecurringOncePerSlot ==
    \A e \in EventIds : (IsEvent(e, "recurring") /\ e \notin date_edited) =>
        \A d \in Dates : ChargesOn(e, d) <= 1

\* The event was charged on one date and again a week later.
C10_Witness ==
    \E e \in EventIds :
        /\ IsEvent(e, "recurring") /\ e \notin date_edited
        /\ \E d \in Dates : ChargesOn(e, d) = 1 /\ ChargesOn(e, d + DaysPerWeek) = 1

\* ================================================== after-fire properties
\* C11: a payment job that runs to its end sets the event's last_run to the
\* moment of the fire; a recurring event then holds exactly one payment job,
\* seven days after the slot that fired (same weekday, same time of day); a
\* single event holds no job.
C11_AfterFire ==
    [][(last'.op = "payment" /\ last'.status = "ok") =>
        LET e == last'.event
            slot == (CHOOSE j \in PaymentJobs(jobs, e) : TRUE).run_date
        IN  /\ events'[e] # None /\ events'[e][1].last_run = Some(now)
            /\ IF events[e][1].event_type = "recurring"
               THEN /\ PaymentJobs(jobs', e) =
                          {[id |-> PaymentJobId(e), run_date |-> slot + DaysPerWeek * DayLen]}
                    /\ Weekday(slot + DaysPerWeek * DayLen) = events[e][1].weekday[1]
                    /\ TimeOfDay(slot + DaysPerWeek * DayLen) = events[e][1].event_time[1]
               ELSE JobsOf(jobs', e) = {}]_vars

\* A recurring event has just been charged and is armed for next week.
C11_Witness ==
    /\ last.op = "payment" /\ last.status = "ok"
    /\ IsEvent(last.event, "recurring")
    /\ events[last.event][1].last_run = Some(now)
    /\ Charges(last.event) >= 1
    /\ \E j \in PaymentJobs(jobs, last.event) : j.run_date = now + DaysPerWeek * DayLen

\* C12: a payment job or a reminder job that runs for an event that is no
\* longer stored, or that is not active, changes no balance, no
\* transaction_count, no transaction row and no event row, sends no message
\* and arms no job.
C12_MissingEventAborts ==
    [][(last'.op \in {"payment", "reminder"}
            /\ (events[last'.event] = None \/ ~events[last'.event][1].is_active)) =>
        /\ last'.status = "skipped"
        /\ LedgerUnchanged
        /\ events' = events
        /\ last'.notified = {}
        /\ jobs' \subseteq jobs]_vars

\* The payment job of an event that went with its activity has run.
C12_Witness ==
    /\ last.op = "payment" /\ last.status = "skipped"
    /\ events[last.event] = None
    /\ JobsOf(jobs, last.event) = {}

\* C13: every payment job and every reminder job in the store belongs to an
\* event that is stored.
C13_JobsReferToStoredEvents ==
    \A j \in jobs : j.id[1] \in {"event_payment", "event_reminder"} => events[j.id[2]] # None

\* C14: when setup_scheduler has run, every stored active event whose next
\* run lies ahead has exactly one payment job, at that next run, and every
\* other event id has no job at all.
C14_StartupArmsAll ==
    [][(last'.op = "start_process") =>
        \A e \in EventIds :
            IF events[e] # None /\ events[e][1].is_active /\ NextRunOf(events[e][1], now) # None
            THEN PaymentJobs(jobs', e) =
                     {[id |-> PaymentJobId(e), run_date |-> NextRunOf(events[e][1], now)[1]]}
            ELSE JobsOf(jobs', e) = {}]_vars
C14_Witness ==
    /\ last.op = "start_process"
    /\ \E e \in EventIds : events[e] # None /\ NextRunOf(events[e][1], now) # None
                           /\ PaymentJobs(jobs, e) # {}
    /\ \E e \in EventIds : events[e] # None /\ NextRunOf(events[e][1], now) = None
                           /\ JobsOf(jobs, e) = {}

\* C15: when update_event_date or update_event_time has run, the event's
\* jobs are those of the edited row: one payment job at the next run computed
\* from the edited fields, a reminder job only at that run less the lead
\* time, hence nothing at a run time of the old schedule; and no job at all
\* when the edited row has no next run ahead.
C15_EditReschedules ==
    [][(last'.op \in {"update_event_date", "update_event_time"}) =>
        LET e == last'.event
            edited == events'[e][1]
            next_run == NextRunOf(edited, now)
        IN  /\ last'.status = "ok"
            /\ IF next_run = None THEN JobsOf(jobs', e) = {}
               ELSE /\ PaymentJobs(jobs', e) =
                           {[id |-> PaymentJobId(e), run_date |-> next_run[1]]}
                    /\ ReminderJobs(jobs', e) \subseteq
                           {[id |-> ReminderJobId(e),
                             run_date |-> next_run[1] - edited.reminder_time]}]_vars
C15_Witness ==
    /\ last.op \in {"update_event_date", "update_event_time"}
    /\ last.event \in date_edited
    /\ PaymentJobs(jobs, last.event) # {}
    /\ \A j \in PaymentJobs(jobs, last.event) :
           j.run_date = NextRunOf(events[last.event][1], now)[1]

\* C16: a fire of an active event with a positive cost in which some charge
\* notifications are not delivered, and no statement fails, completes: every
\* member of the audience (the ones whose message failed included) is
\* debited the cost, has one more transaction counted, and has had its
\* message attempted.
C16_DeliveryFailureIsNotFatal ==
    [][(/\ last'.op = "payment" /\ last'.status # "skipped"
        /\ last'.undelivered # {} /\ ~last'.db_error) =>
        LET event == events[last'.event][1]
        IN  /\ last'.status = "ok"
            /\ last'.notified = Audience(event)
            /\ \A u \in Audience(event) :
                   /\ balance'[u] = balance[u] - event.cost
                   /\ transaction_count'[u] = transaction_count[u] + 1
            /\ Len(transactions') = Len(transactions) + Cardinality(Audience(event))]_vars
C16_Witness ==
    /\ last.op = "payment" /\ last.status = "ok"
    /\ last.undelivered # {} /\ last.undelivered # last.notified
    /\ \A u \in last.notified : balance[u] < 0

\* C17: a charge notification is sent only for a sweep whose transaction has
\* committed: when the last fire told some member of a debit, that fire's
\* sweep was not rolled back.
C17_NotifiedOnlyAfterCommit ==
    (last.op = "payment" /\ last.notified # {}) => last.status = "ok"

\* C18: a fire of an active event whose cost is 0 changes no balance and no
\* transaction_count and appends no row, whoever is in the audience.
C18_FreeEventLeavesLedger ==
    [][(/\ last'.op = "payment" /\ last'.status # "skipped"
        /\ events[last'.event][1].cost = 0) =>
        /\ last'.status = "ok"
        /\ LedgerUnchanged]_vars
C18_Witness ==
    /\ last.op = "payment" /\ last.status = "ok"
    /\ events[last.event] # None
    /\ events[last.event][1].cost = 0
    /\ events[last.event][1].last_run = Some(now)
    /\ Audience(events[last.event][1]) = UserIds
    /\ transactions = <<>>

\* C19: a fire of an active event whose cost is 0 still sends (attempts) the
\* participation notification to every member of the audience.
C19_FreeEventStillNotifies ==
    [][(/\ last'.op = "payment" /\ last'.status = "ok"
        /\ events[last'.event][1].cost = 0) =>
        last'.notified = Audience(events[last'.event][1])]_vars

\* The users an event concerns, by its activity.
ExpectedAudience(event) ==
    IF event.activity_id = GeneralActivity
    THEN {u \in users : u # FundId}
    ELSE {u \in users : <<u, event.activity_id>> \in subscriptions}

\* C20: the accounts debited by a successful fire of an event with a positive
\* cost, and the users a reminder job writes to, are: every user but the fund
\* when the event's activity is activity 1, the holders of a subscription row
\* for the event's activity otherwise; the fund's balance is never lowered by
\* a fire.
C20_AudienceOfFire ==
    [][/\ (last'.op = "payment" /\ last'.status = "ok") =>
            LET event == events[last'.event][1]
                charged == {u \in users : balance'[u] < balance[u]}
            IN  /\ event.cost > 0 => charged = ExpectedAudience(event)
                /\ FundId \notin charged
                /\ last'.notified = charged
       /\ (last'.op = "reminder" /\ last'.status = "ok") =>
            LET event == events[last'.event][1]
            IN  /\ event.reminder_time > 0 => last'.notified = ExpectedAudience(event)
                /\ FundId \notin last'.notified]_vars
C20_Witness ==
    /\ last.op = "payment" /\ last.status = "ok"
    /\ events[last.event] # None
    /\ events[last.event][1].activity_id # GeneralActivity
    /\ events[last.event][1].cost > 0
    /\ \E u \in UserIds : balance[u] < 0
    /\ \E u \in UserIds : balance[u] = 0 /\ <<u, GeneralActivity>> \in subscriptions

\* ============================================== demurrage properties
\* The run of the daily job qualifies: demurrage is enabled, at least
\* demurrage_interval_days whole days have passed since demurrage_last_run,
\* and the rate is positive.
Qualifies ==
    /\ settings.demurrage_enabled
    /\ DateOf(now) - settings.demurrage_last_run >= settings.demurrage_interval_days
    /\ settings.demurrage_rate_pct > 0

\* C21: a run of process_demurrage while demurrage is disabled, or before
\* demurrage_interval_days whole days have passed since demurrage_last_run,
\* or with a rate that is not positive, changes no balance (the fund's
\* included), no count, no row and no setting.
C21_DemurrageNoOp ==
    [][(last'.op = "demurrage" /\ ~Qualifies) =>
        /\ LedgerUnchanged
        /\ settings' = settings
        /\ last'.status \in {"disabled", "not_due", "no_rate"}]_vars
C21_Witness ==
    /\ last.op = "demurrage" /\ last.status = "not_due"
    /\ settings.demurrage_enabled /\ settings.demurrage_rate_pct > 0
    /\ \E u \in UserIds : DemurrageAmount(balance[u], settings.demurrage_rate_pct) > 0

\* C22: a run of process_demurrage that qualifies and completes, with or
\* without a user to tax, leaves demurrage_last_run = today and every other
\* setting as it was; demurrage_last_run is written by no other step; and a
\* user is debited by a run only when that run qualifies, so that after the
\* run no further debit falls within demurrage_interval_days of it.
C22_OncePerWindow ==
    [][/\ (last'.op = "demurrage" /\ Qualifies) =>
            /\ last'.status \in {"ok", "nobody", "error"}
            /\ last'.status \in {"ok", "nobody"} =>
                   settings' = [settings EXCEPT !.demurrage_last_run = DateOf(now)]
       /\ settings'.demurrage_last_run # settings.demurrage_last_run =>
            /\ last'.op = "demurrage" /\ Qualifies
            /\ settings'.demurrage_last_run = DateOf(now)
       /\ (\E u \in AccountIds : last'.op = "demurrage" /\ balance'[u] < balance[u]) =>
            /\ Qualifies
            /\ settings'.demurrage_last_run = DateOf(now)]_vars
C22_Witness ==
    /\ last.op = "demurrage" /\ last.status = "not_due"
    /\ settings.demurrage_enabled /\ settings.demurrage_rate_pct > 0
    /\ settings.demurrage_last_run = DateOf(now) - 1
    /\ \E i \in 1..Len(transactions) : transactions[i].type = "demurrage"
    /\ \E u \in UserIds : DemurrageAmount(balance[u], settings.demurrage_rate_pct) > 0

\* a is p / 100 rounded to a whole number, halves to the even neighbour.
RoundedHundredth(p, a) ==
    LET d == p - 100 * a
    IN  \/ (0 - 50 < d /\ d < 50)
        \/ (d \in {50, 0 - 50} /\ a % 2 = 0)

\* C23: a run of process_demurrage that qualifies and completes lowers the
\* balance of every user but the fund whose balance is positive by balance *
\* rate rounded to the fourth decimal place, changes no other user's balance,
\* raises the fund's balance by the sum of what was taken, and appends one
\* demurrage row (user -> fund, the amount taken) for each user something was
\* taken from and no other row; the sum of all balances is as before.  At a
\* rate of 1 percent a balance of 1000 gives 10.
C23_DemurrageEffect ==
    [][(last'.op = "demurrage" /\ last'.status \in {"ok", "nobody"}) =>
        LET taken == [u \in AccountIds |-> balance[u] - balance'[u]]
            payers == {u \in UserIds : taken[u] # 0}
        IN  /\ \A u \in UserIds :
                   IF u \in users /\ balance[u] > 0
                   THEN RoundedHundredth(balance[u] * settings.demurrage_rate_pct, taken[u])
                   ELSE taken[u] = 0
            /\ balance'[FundId] = balance[FundId] + SumOver(taken, UserIds)
            /\ SumOver(balance', AccountIds) = SumOver(balance, AccountIds)
            /\ Len(NewRows) = Cardinality(payers)
            /\ \A u \in payers :
                   \E i \in 1..Len(NewRows) :
                       NewRows[i] = [from_user_id |-> u, to_user_id |-> FundId,
                                     amount |-> taken[u], type |-> "demurrage"]
            /\ DemurrageAmount(1000 * UnitsPerCoin, 1) = 10 * UnitsPerCoin]_vars
C23_Witness ==
    /\ last.op = "demurrage" /\ last.status = "ok"
    /\ settings.demurrage_rate_pct = RatePct
    /\ \E i \in 1..Len(transactions) :
           transactions[i].type = "demurrage" /\ transactions[i].amount = 2
    /\ \E u \in UserIds : balance[u] = 1
    /\ \E u \in UserIds : balance[u] < 0
    /\ balance[FundId] > 0

\* C24: the debits, the fund credit, the rows and the new demurrage_last_run
\* of a run are applied together or not at all: a run advances
\* demurrage_last_run exactly when its debits are committed.
C24_DemurrageAtomic ==
    [][(last'.op = "demurrage") =>
        (settings'.demurrage_last_run # settings.demurrage_last_run
            <=> last'.status \in {"ok", "nobody"})]_vars

\* ============================================== job store properties
\* The row has no next run at the clock: a single event without a date or
\* with a date that is not ahead, a recurring event without weekday or time.
NoNextRun(row, clock) ==
    \/ row.event_type = "single" /\ (row.event_date = None \/ row.event_date[1] <= clock)
    \/ row.event_type = "recurring" /\ (row.weekday = None \/ row.event_time = None)

\* C25: schedule_event_jobs called for a row that has no next run returns
\* without raising and leaves the event without any job, whatever was armed
\* for it before; the other jobs of the store are as they were.
C25_NoNextRunNoJobs ==
    [][(last'.op = "schedule_event_jobs" /\ NoNextRun(last'.row, now)) =>
        /\ last'.status = "ok"
        /\ JobsOf(jobs', last'.event) = {}
        /\ jobs' = jobs \ JobsOf(jobs, last'.event)]_vars
C25_Witness ==
    /\ last.op = "schedule_event_jobs" /\ last.status = "ok"
    /\ last.row.event_type = "recurring" /\ last.row.weekday = None
    /\ last.row.event_date # None
    /\ last.armed_before = 2
    /\ JobsOf(jobs, last.event) = {}

\* C26: schedule_event_jobs called for a row that has a next run arms a
\* reminder job exactly when the row's lead time is positive and the next run
\* less the lead time is later than now; the job is then at that moment, and
\* no reminder job of the event is left at now or earlier.
C26_ReminderArming ==
    [][(last'.op = "schedule_event_jobs" /\ ~NoNextRun(last'.row, now)) =>
        LET e == last'.event
            row == last'.row
            next_run == NextRunOf(row, now)[1]
            wanted == row.reminder_time > 0 /\ next_run - row.reminder_time > now
        IN  /\ last'.status = "ok"
            /\ ReminderJobs(jobs', e) =
                   IF wanted
                   THEN {[id |-> ReminderJobId(e), run_date |-> next_run - row.reminder_time]}
                   ELSE {}
            /\ \A j \in ReminderJobs(jobs', e) : j.run_date > now]_vars
C26_Witness ==
    /\ last.op = "schedule_event_jobs" /\ last.status = "ok"
    /\ ~NoNextRun(last.row, now)
    /\ last.row.reminder_time > 0
    /\ NextRunOf(last.row, now)[1] - last.row.reminder_time = now
    /\ last.armed_before = 2
    /\ ReminderJobs(jobs, last.event) = {}
    /\ PaymentJobs(jobs, last.event) # {}

\* ============================================== missed slot properties
\* After the step the recurring event e has its payment job at the first
\* slot later than now, as computed from weekday and time alone.
ArmedAtNextSlot(e) ==
    LET row == events'[e][1]
        next_run == NextRunOf([row EXCEPT !.last_run = None], now)
    IN  /\ next_run # None /\ next_run[1] > now
        /\ Weekday(next_run[1]) = row.weekday[1] /\ TimeOfDay(next_run[1]) = row.event_time[1]
        /\ next_run[1] <= now + DaysPerWeek * DayLen
        /\ PaymentJobs(jobs', e) = {[id |-> PaymentJobId(e), run_date |-> next_run[1]]}

\* C27: a start-up, an arming edit or the re-arm after a fire leaves a
\* recurring event's payment job at the first slot later than now, whatever
\* last_run is and however many slots went by while the process was down;
\* and a payment job runs at its own run time only, so nothing is processed
\* for a slot that has gone by.
C27_NoCatchUp ==
    [][/\ (last'.op = "start_process") =>
            \A e \in EventIds : IsEvent(e, "recurring") => ArmedAtNextSlot(e)
       /\ (last'.op \in ArmOps \/ (last'.op = "payment" /\ last'.status = "ok")) =>
            (events'[last'.event][1].event_type = "recurring" => ArmedAtNextSlot(last'.event))
       /\ (last'.op = "payment") =>
            \E j \in jobs \ jobs' : j.id = PaymentJobId(last'.event) /\ j.run_date = now]_vars
C27_Witness ==
    /\ last.op = "start_process"
    /\ \E e \in EventIds :
           /\ IsEvent(e, "recurring") /\ e \notin date_edited
           /\ events[e][1].last_run # None
           /\ events[e][1].last_run[1] + DaysPerWeek * DayLen < now
           /\ Charges(e) = 1
           /\ PaymentJobs(jobs, e) =
                  {[id |-> PaymentJobId(e),
                    run_date |-> events[e][1].last_run[1] + 2 * DaysPerWeek * DayLen]}

\* C28: remove_event_jobs returns normally whether the event has both of its
\* jobs armed, one of them or none; afterwards the event has no job and
\* every other job of the store is as it was.
C28_RemoveTolerant ==
    [][(last'.op = "remove_event_jobs") =>
        /\ last'.status = "ok"
        /\ JobsOf(jobs', last'.event) = {}
        /\ jobs' = jobs \ JobsOf(jobs, last'.event)
        /\ \A e \in EventIds \ {last'.event} : JobsOf(jobs', e) = JobsOf(jobs, e)]_vars
C28_Witness ==
    /\ last.op = "remove_event_jobs" /\ last.status = "ok"
    /\ last.armed_before = 1
    /\ JobsOf(jobs, last.event) = {}
    /\ \E e \in EventIds \ {last.event} : Cardinality(JobsOf(jobs, e)) = 2

\* ============================================= membership properties
\* C29: in every state activity 1 is stored and every user but the fund
\* holds a subscription to it.
C29_GeneralActivityKept ==
    /\ GeneralActivity \in activities
    /\ \A u \in users \ {FundId} : <<u, GeneralActivity>> \in subscriptions

\* ============================================ event form properties
\* C30: every stored event has the schedule fields of its type and no
\* others (a single event a date and neither weekday nor time, a recurring
\* event a weekday and a time and no date), and a cost that is not negative.
C30_ScheduleForm ==
    \A e \in EventIds :
        events[e] # None =>
            LET row == events[e][1]
            IN  /\ row.event_type = "single" =>
                       row.event_date # None /\ row.weekday = None /\ row.event_time = None
                /\ row.event_type = "recurring" =>
                       row.weekday # None /\ row.event_time # None /\ row.event_date = None
                /\ row.cost >= 0

\* ========================================= job runner failure properties
\* The handlers that arm an event.
ArmingOps == {"create_event", "update_event_date", "update_event_time", "update_event_reminder"}

\* What does hold of a handler whose arming raised: the row it wrote is in
\* storage.
RaisedAndStored ==
    (last.op \in ArmingOps /\ last.status = "error") => events[last.event] # None

\* C31: when the job runner fails to add a job while an admin creates an
\* event or edits its schedule or reminder, the admin is sent a report of the
\* failure (and no success message), and the event remains in storage.
C31_ArmFailureReported ==
    (last.op \in ArmingOps /\ last.status # "ok") =>
        /\ last.status = "failure_reported"
        /\ events[last.event] # None

\* ================================================ reminder properties
\* C32: a reminder job changes no balance, no transaction count, no
\* transaction row and no event row (last_run included); and the reminder is
\* attempted for every member of the event's audience, whichever deliveries
\* fail.
C32_ReminderOnlySends ==
    [][last'.op = "reminder" =>
          /\ balance' = balance
          /\ transaction_count' = transaction_count
          /\ transactions' = transactions
          /\ events' = events
          /\ last'.status = "ok" =>
                 last'.notified = IF events[last'.event][1].reminder_time > 0
                                  THEN ExpectedAudience(events[last'.event][1])
                                  ELSE {}]_vars

\* A reminder whose first delivery failed and whose second was attempted.
C32_Witness ==
    /\ last.op = "reminder" /\ last.status = "ok"
    /\ 1 \in last.undelivered
    /\ 2 \in last.notified

\* ======================================== concurrent transfer properties
\* C33: every committed debit of a transfer finds the sender's balance at
\* least the amount at the moment of the debit, however the process_transfer
\* calls of one sender interleave between their balance check and their
\* transaction.
C33_TransfersNeverOverdraw ==
    [][(last'.op = "transfer" /\ last'.status \in {"ok", "error_after_commit"}) =>
          \A u \in users : balance'[u] < balance[u] => balance[u] >= last'.amount]_vars

\* C34: the answer to a transfer matches the ledger. When the sender is told
\* the transfer failed, no balance, count or transaction row was changed by
\* it; when balances were changed, the sender is told it succeeded, also when
\* the debt-repayment step after the commit fails.
C34_AnswerMatchesLedger ==
    [][last'.op = "transfer" =>
          /\ last'.status \in {"error", "error_after_commit"} => LedgerUnchanged
          /\ balance' # balance => last'.status = "ok"]_vars

\* ================================================ failed fire properties
\* C35: when the payment sweep of a recurring active event raises, a payment
\* job for a future slot of the event is armed once the job has ended.
C35_FailedFireRearms ==
    [][(/\ last'.op = "payment" /\ last'.status = "error"
        /\ events[last'.event][1].event_type = "recurring"
        /\ events[last'.event][1].is_active)
          => \E j \in PaymentJobs(jobs', last'.event) : j.run_date > now]_vars

\* =================================================== caller properties
\* C36: an event is created, edited, rescheduled or deleted, and an activity
\* is deleted, only by a caller whose is_admin flag is true, whatever
\* commands, button callbacks and dialog messages the others send.
C36_OnlyAdminsMutate ==
    [][(events' # events \/ activities' # activities) => is_admin(last'.caller)]_vars

\* ============================================ reminder job properties
\* C37: whenever a reminder job is armed for a stored event, a payment job of
\* the same event is armed too, the event's lead time is above 0, and the
\* reminder's run time is the payment job's run time minus the lead time.
C37_ReminderFollowsPayment ==
    \A e \in EventIds :
        \A r \in ReminderJobs(jobs, e) :
            events[e] # None =>
                /\ events[e][1].reminder_time > 0
                /\ \E p \in PaymentJobs(jobs, e) :
                       r.run_date = p.run_date - events[e][1].reminder_time

\* An event whose lead time was edited holds a reminder job while the other
\* event holds a payment job and no reminder job.
C37_Witness ==
    /\ last.op = "update_event_reminder" /\ last.status = "ok"
    /\ ReminderJobs(jobs, last.event) # {}
    /\ \E e2 \in EventIds \ {last.event} :
           PaymentJobs(jobs, e2) # {} /\ ReminderJobs(jobs, e2) = {}

\* ================================================= cost edit properties
\* C38: a cost edit leaves the job store as it is, and a fire debits each
\* member of the audience the cost the event's row holds when the job fires,
\* whatever the cost was when the job was armed.
C38_FeeIsCostAtFire ==
    [][/\ last'.op = "update_event_cost" => jobs' = jobs
       /\ (last'.op = "payment" /\ last'.status = "ok") =>
            LET event == events[last'.event][1]
            IN  \A u \in ExpectedAudience(event) : balance'[u] = balance[u] - event.cost]_vars

\* A fire that has debited the edited cost: the event was created and armed
\* at the cost MaxCost.
C38_Witness ==
    /\ last.op = "payment" /\ last.status = "ok"
    /\ events[last.event][1].cost = MaxCost + 1
    /\ \A u \in UserIds : balance[u] = 0 - (MaxCost + 1)

\* ========================================== reminder switch-off properties
\* C39: storing a lead time of 0 for an event removes that event's reminder
\* job and nothing else (its payment job and the jobs of the other events
\* stay as they are), and as long as the stored lead time is 0 no step arms a
\* reminder job for the event.
C39_ReminderOffRemovesOnlyReminder ==
    [][/\ last'.op = "reminder_off" =>
            /\ events'[last'.event][1].reminder_time = 0
            /\ jobs' = jobs \ ReminderJobs(jobs, last'.event)
            /\ PaymentJobs(jobs', last'.event) = PaymentJobs(jobs, last'.event)
       /\ \A e \in EventIds :
            (events'[e] # None /\ events'[e][1].reminder_time = 0) =>
                ReminderJobs(jobs', e) = {}]_vars

\* The reminder of an event has been switched off while the event's payment
\* job waits more than the largest lead time ahead and the other event holds
\* a reminder job.
C39_Witness ==
    /\ last.op = "reminder_off"
    /\ \E p \in PaymentJobs(jobs, last.event) : p.run_date > now + MaxLead
    /\ \E e2 \in EventIds \ {last.event} : ReminderJobs(jobs, e2) # {}

====
